---------------------------- MODULE Spec2Model ----------------------------
(***************************************************************************)
(* A model of the XMPP gateway layer of veilsupport: the admin reply       *)
(* parser, the synthetic-address mapping, the message handlers of the      *)
(* three chat services, and the connection lifecycle of the bot and        *)
(* gateway clients.                                                        *)
(*                                                                         *)
(* Text is modelled as a sequence of one-character strings, so that the    *)
(* string functions of the source (TrimSpace, the reply regexp, the JID    *)
(* sanitiser and its reversal) are computed character by character.        *)
(***************************************************************************)
EXTENDS Integers, Sequences, FiniteSets, TLC

VARIABLES
    text,            \* SpecParse: the admin text handed to ParseAdminReply
    parsed,          \* SpecParse: what ParseAdminReply returned for it
    domain,          \* config.XMPP.Domain
    userClients,     \* XMPPManager.userClients: the JIDs that have a session
    adminConnected,  \* XMPPManager.adminConnected
    xmppConnected,   \* XMPPClient.IsConnected() of ChatService.xmpp
    cl,              \* the client under test: [connected, session]
    kind,            \* the deployment of the run: handler, chat, gateway (Spec); bot, gateway (SpecConn)
    activeUsers,     \* BetterBotClient.activeUsers: the ids that have a record
    userMap,         \* GatewayClient.userMap: id -> UserInfo
    mu,              \* the client's mutex: 0 free, else the process holding it
    pc,              \* per process: where it is inside Connect
    open,            \* transport sessions dialed and not yet closed
    botJID,          \* the client's own address (botJID)
    win,             \* history: the current window of overlapping Connect calls
    inbox,           \* the inbound stanza waiting for the listener, NoMsg if none
    crashed,         \* the process died of a panic
    listeners,       \* the addresses whose listenToSession goroutine is running
    ctxDone,         \* the context passed to StartListening has been cancelled
    incoming,        \* XMPPManager.incoming: "open" or "closed"
    consumer,        \* the loop reading inbound stanzas: "off", "running", "stopped"
    now,             \* time.Now().Unix()
    derived,         \* SpecAddr: the addresses derived so far, by function
    sessions,        \* XMPPSessionManager.sessions: user id -> UserXMPPSession
    usersTable,      \* the users table: the rows inserted so far
    hub,             \* ws.Manager: its clients map and the Client objects made so far
    last             \* history: the last operation, its collaborator calls, its result

vars == << text, parsed, domain, userClients, adminConnected, xmppConnected,
           cl, kind, activeUsers, userMap, mu, pc, open, botJID, win, inbox, crashed,
           listeners, ctxDone, incoming, consumer, now, derived, sessions, usersTable, hub, last >>

(***************************************************************************)
(* Bounds of the model.                                                    *)
(***************************************************************************)
MaxTextLen == 6
\* the Connect calls followed in one window of overlapping calls
MaxCalls == 3
\* the longest email given to the address derivations, and the last clock tick
MaxEmailLen == 4
MaxNow == 1
\* the messages counted for one user of the bot
MaxMessages == 2
\* the goroutines that call SendUserMessage at the same time
MaxSenders == 2
\* the clock readings followed after the first one in a run of SpecSess
MaxReadings == 3
\* the WebSocket connections opened in a run
MaxConns == 2
\* the messages Client.send buffers in the model (the code makes it 256 deep)
MaxQueued == 2
\* the XMPP clients dialed in a run of SpecSessRace
MaxDialed == 3
\* the inactivity threshold of XMPPSessionManager, in minutes
StaleMinutes == 30

\* parsed before ParseAdminReply has run, and last when the last step was no handler
NotParsed == [err |-> FALSE, userID |-> -1, reply |-> << >>]
NoMsg == [From |-> << >>, To |-> << >>, Body |-> << >>]
Idle == [op |-> "none", email |-> << >>, uid |-> 0, msg |-> NoMsg, calls |-> << >>,
         result |-> "", routed |-> "none", who |-> 0, up |-> FALSE, ws |-> FALSE]

(***************************************************************************)
(* Characters and strings.                                                 *)
(***************************************************************************)
Digits == {"1", "2"}
\* The characters both strings.TrimSpace and the regexp class \s treat as space.
Spaces == {" ", "\n"}
Alphabet == {"@", "a"} \cup Digits \cup Spaces

Texts(n) == UNION { [1..k -> Alphabet] : k \in 0..n }

IsDigit(c) == c \in {"0", "1", "2", "3", "4", "5", "6", "7", "8", "9"}
IsSpace(c) == c \in {" ", "\n", "\t", "\r"}

DigitVal(c) ==
    CASE c = "0" -> 0 [] c = "1" -> 1 [] c = "2" -> 2 [] c = "3" -> 3
      [] c = "4" -> 4 [] c = "5" -> 5 [] c = "6" -> 6 [] c = "7" -> 7
      [] c = "8" -> 8 [] c = "9" -> 9

\* s[i..j], empty when i > j
Slice(s, i, j) == IF i > j THEN << >> ELSE SubSeq(s, i, j)

RECURSIVE TrimLeft(_)
TrimLeft(s) ==
    IF s # << >> /\ IsSpace(Head(s)) THEN TrimLeft(Tail(s)) ELSE s

RECURSIVE TrimRight(_)
TrimRight(s) ==
    IF s # << >> /\ IsSpace(s[Len(s)]) THEN TrimRight(SubSeq(s, 1, Len(s) - 1)) ELSE s

\* strings.TrimSpace
TrimSpace(s) == TrimRight(TrimLeft(s))

\* length of the longest run of characters satisfying the class, starting at s[i]
RECURSIVE DigitRun(_, _)
DigitRun(s, i) ==
    IF i <= Len(s) /\ IsDigit(s[i]) THEN 1 + DigitRun(s, i + 1) ELSE 0

RECURSIVE SpaceRun(_, _)
SpaceRun(s, i) ==
    IF i <= Len(s) /\ IsSpace(s[i]) THEN 1 + SpaceRun(s, i + 1) ELSE 0

\* the regexp's "." matches every character but the newline
RECURSIVE DotRun(_, _)
DotRun(s, i) ==
    IF i <= Len(s) /\ s[i] # "\n" THEN 1 + DotRun(s, i + 1) ELSE 0

\* strconv.Atoi of a non-empty digit string (the model's digit strings are far
\* shorter than the 19 digits at which Atoi reports a range error)
RECURSIVE AtoiDigits(_)
AtoiDigits(ds) ==
    IF ds = << >> THEN 0
    ELSE 10 * AtoiDigits(SubSeq(ds, 1, Len(ds) - 1)) + DigitVal(ds[Len(ds)])

(***************************************************************************)
(* Addresses and identities.                                               *)
(***************************************************************************)
Letters ==
    {"a", "b", "c", "d", "e", "f", "g", "h", "i", "j", "k", "l", "m", "n",
     "o", "p", "q", "r", "s", "t", "u", "v", "w", "x", "y", "z",
     "A", "B", "C", "D", "E", "F", "G", "H", "I", "J", "K", "L", "M", "N",
     "O", "P", "Q", "R", "S", "T", "U", "V", "W", "X", "Y", "Z"}
IsAlnum(c) == c \in Letters \/ IsDigit(c)

\* config.XMPP.Admin, and the values config.XMPP.Domain takes in the model
Admin == << "r", "@", "d" >>
Dom == << "d" >>
Domains == { Dom, << >> }

\* the users of the database: emails, ids, and the stored xmpp_jid column
E1 == << "a", "@", "b" >>
E2 == << "a", "@", "b", ".", "c" >>
E3 == << "a", ".", "b", "@", "c" >>
Emails == { E1, E2, E3 }
UserIDs == { 1, 2 }
UsersTable ==
    [ i \in UserIDs |->
        IF i = 1 THEN [ID |-> 1, Email |-> E1, XmppJID |-> << "j", "1" >>]
                 ELSE [ID |-> 2, Email |-> E2, XmppJID |-> << "j", "2" >>] ]
DbEmails == { UsersTable[i].Email : i \in UserIDs }

UserPrefix == << "u", "s", "e", "r", "_" >>

IndexOf(s, c) ==
    \* strings.Index: the first position of c in s, 0 when absent
    IF \E i \in 1..Len(s) : s[i] = c
    THEN CHOOSE i \in 1..Len(s) : s[i] = c /\ \A j \in 1..(i - 1) : s[j] # c
    ELSE 0
Count(s, c) == Cardinality({ i \in 1..Len(s) : s[i] = c })
HasPrefix(s, p) == Len(s) >= Len(p) /\ SubSeq(s, 1, Len(p)) = p

\* jid.Parse of the XMPP library, for an address with no resource part: the
\* domain part must not be empty, and a leading "@" (empty local part) is
\* rejected
JidValid(a) ==
    LET at == IndexOf(a, "@")
    IN  /\ at # 1
        /\ Len(a) - at >= 1
        /\ Count(a, "@") <= 1

\* MessageHandler.GenerateUserJID: every character outside [a-zA-Z0-9] becomes "_"
SanitizeKeepsDots(email) ==
    [ i \in 1..Len(email) |->
        IF IsAlnum(email[i]) \/ email[i] \in {".", "-"} THEN email[i] ELSE "_" ]
Sanitize(email) ==
    [ i \in 1..Len(email) |-> IF IsAlnum(email[i]) THEN email[i] ELSE "_" ]
GenerateUserJIDBare(email) == Sanitize(email) \o << "@" >> \o domain
GenerateUserJID(email) == UserPrefix \o Sanitize(email) \o << "@" >> \o domain

\* MessageHandler.extractUserEmailFromJID: "" unless the address is
\* user_<x>@<domain>; then <x> with every "_" replaced by "@"
extractUserEmailFromJID(jid) ==
    IF Count(jid, "@") # 1 THEN << >>
    ELSE LET localPart == SubSeq(jid, 1, IndexOf(jid, "@") - 1)
         IN  IF ~HasPrefix(localPart, UserPrefix) THEN << >>
             ELSE LET cleanPart == SubSeq(localPart, Len(UserPrefix) + 1, Len(localPart))
                  IN  [ i \in 1..Len(cleanPart) |->
                          IF cleanPart[i] = "_" THEN "@" ELSE cleanPart[i] ]

(***************************************************************************)
(* The record of one operation: the collaborator calls it made, in order,  *)
(* and what it returned.                                                   *)
(***************************************************************************)
Call(c, email, uid, from, to, body, typ, ok) ==
    [c |-> c, email |-> email, uid |-> uid, from |-> from, to |-> to,
     body |-> body, typ |-> typ, ok |-> ok]
LogCall == Call("Log", << >>, 0, << >>, << >>, << >>, "", TRUE)
Calls(eff, c) == { i \in 1..Len(eff.calls) : eff.calls[i].c = c }

\* XMPPManager.SendMessage: TRUE when it returns an error
XMPPManagerSendFails(clients, from, to) ==
    \/ from = Admin /\ ~adminConnected
    \/ from # Admin /\ from \notin clients
    \/ ~JidValid(to)

\* chat.Service.GetOrCreateSession: the user must exist, and the session
\* lookup or creation (ok) must succeed
GetOrCreateSessionOK(email, ok) == email \in DbEmails /\ ok

(***************************************************************************)
(* MessageHandler.ProcessUserMessage                                       *)
(***************************************************************************)
ProcessUserMessage(userEmail, message, sessOK, saveOK) ==
    LET userJID == GenerateUserJID(userEmail)
        has     == userJID \in userClients
        created == Call("CreateUserSession", userEmail, 0, userJID, << >>, << >>, "",
                        JidValid(userJID))
        clients == IF has THEN userClients ELSE userClients \cup {userJID}
        fails   == XMPPManagerSendFails(clients, userJID, Admin)
    IN  IF ~GetOrCreateSessionOK(userEmail, sessOK)
        THEN [calls |-> << >>, result |-> "err_session", clients |-> userClients]
        ELSE IF ~has /\ ~JidValid(userJID)
        THEN [calls |-> << created >>, result |-> "err_user_session",
              clients |-> userClients]
        ELSE [calls |->
                (IF has THEN << >> ELSE << created >>)
                \o << Call("XMPPSend", userEmail, 0, userJID, Admin, message, "", ~fails) >>
                \o (IF fails THEN << LogCall >> ELSE << >>)
                \o << Call("SaveMessage", userEmail, 0, userJID, Admin, message, "user",
                           saveOK) >>,
              result |-> IF saveOK THEN "ok" ELSE "err_save",
              clients |-> clients]

(***************************************************************************)
(* MessageHandler.ProcessAdminMessage                                      *)
(***************************************************************************)
ProcessAdminMessageSendsAlways(targetUser, message, sessOK, saveOK, hasWS, wsOK) ==
    LET userJID == GenerateUserJID(targetUser)
        has     == userJID \in userClients
        fails   == XMPPManagerSendFails(userClients, Admin, userJID)
        sent    == << Call("XMPPSend", targetUser, 0, Admin, userJID, message, "",
                           ~fails) >>
                   \o (IF fails THEN << LogCall >> ELSE << >>)
        saved   == << Call("SaveMessage", targetUser, 0, Admin, userJID, message, "admin",
                           saveOK) >>
    IN  IF ~GetOrCreateSessionOK(targetUser, sessOK)
        THEN [calls |-> << >>, result |-> "err_session", clients |-> userClients]
        ELSE IF ~saveOK
        THEN [calls |-> sent \o saved, result |-> "err_save", clients |-> userClients]
        ELSE [calls |->
                sent \o saved
                \o (IF hasWS
                    THEN << Call("WSSend", targetUser, 0, << >>, << >>, message, "", wsOK) >>
                         \o (IF wsOK THEN << >> ELSE << LogCall >>)
                    ELSE << LogCall >>),
              result |-> "ok", clients |-> userClients]
ProcessAdminMessage(targetUser, message, sessOK, saveOK, hasWS, wsOK) ==
    LET userJID == GenerateUserJID(targetUser)
        has     == userJID \in userClients
        fails   == XMPPManagerSendFails(userClients, Admin, userJID)
        sent    == IF has
                   THEN << Call("XMPPSend", targetUser, 0, Admin, userJID, message, "",
                                ~fails) >>
                        \o (IF fails THEN << LogCall >> ELSE << >>)
                   ELSE << >>
        saved   == << Call("SaveMessage", targetUser, 0, Admin, userJID, message, "admin",
                           saveOK) >>
    IN  IF ~GetOrCreateSessionOK(targetUser, sessOK)
        THEN [calls |-> << >>, result |-> "err_session", clients |-> userClients]
        ELSE IF ~saveOK
        THEN [calls |-> sent \o saved, result |-> "err_save", clients |-> userClients]
        ELSE [calls |->
                sent \o saved
                \o (IF hasWS
                    THEN << Call("WSSend", targetUser, 0, << >>, << >>, message, "", wsOK) >>
                         \o (IF wsOK THEN << >> ELSE << LogCall >>)
                    ELSE << LogCall >>),
              result |-> "ok", clients |-> userClients]

(***************************************************************************)
(* MessageHandler.handleIncomingXMPPMessage                                *)
(***************************************************************************)
handleIncomingXMPPMessage(msg, sessOK, saveOK, hasWS, wsOK) ==
    LET who == IF msg.From = Admin THEN extractUserEmailFromJID(msg.To)
                                   ELSE extractUserEmailFromJID(msg.From)
        r   == IF msg.From = Admin
               THEN ProcessAdminMessage(who, msg.Body, sessOK, saveOK, hasWS, wsOK)
               ELSE ProcessUserMessage(who, msg.Body, sessOK, saveOK)
    IN  IF who = << >>
        THEN [calls |-> << >>, result |-> "dropped", clients |-> userClients,
              routed |-> "none", who |-> who]
        ELSE [calls |-> r.calls \o (IF r.result = "ok" THEN << >> ELSE << LogCall >>),
              result |-> r.result, clients |-> r.clients,
              routed |-> IF msg.From = Admin THEN "admin" ELSE "user", who |-> who]


(***************************************************************************)
(* GatewayClient and BetterBotClient: the connection state they share.     *)
(***************************************************************************)
Disconnected == [connected |-> FALSE, session |-> 0]

\* IsConnected, and the guard at the top of Connect
IsConnectedNever(c) == FALSE
IsConnected(c) == c.connected /\ c.session # 0

\* the transport session a dial returns: one that is not open yet
NewSession(op) == CHOOSE n \in 1..(Cardinality(op) + 1) : n \notin op

\* GatewayClient.RegisterUser, with the display name GatewayService.RegisterUser
\* derives from the email (the part before the "@", if that is not empty)
DisplayName(email) ==
    IF IndexOf(email, "@") > 1 THEN SubSeq(email, 1, IndexOf(email, "@") - 1) ELSE email
GatewayRegisterUser(um, userID, email) ==
    [ i \in (DOMAIN um) \cup {userID} |->
        IF i = userID
        THEN [UserID |-> userID, Email |-> email, DisplayName |-> DisplayName(email),
              IsOnline |-> TRUE]
        ELSE um[i] ]

\* GatewayClient.extractUserIDFromMessage: fmt.Sscanf(body, "%*s@user_%d", &userID).
\* Go's scanner has no assignment-suppressing "*": it takes '*' as the verb for
\* the *int operand and fails with "bad verb '%*' for integer" (or with an
\* unexpected EOF on an empty body), so the error is never nil and 0 is returned.
ContainsSub(s, sub) ==
    \E i \in 1..(Len(s) - Len(sub) + 1) : SubSeq(s, i, i + Len(sub) - 1) = sub
SscanfUserID(body) == [err |-> TRUE, userID |-> 0]
extractUserIDFromMessage(body) ==
    IF ContainsSub(body, << "@" >> \o UserPrefix) /\ ~SscanfUserID(body).err
    THEN SscanfUserID(body).userID
    ELSE 0

\* GatewayClient.HandleAdminReply: the target user id, 0 when it fails
GatewayHandleAdminReply(um, body) ==
    LET userID == extractUserIDFromMessage(body)
    IN  IF userID = 0 \/ userID \notin DOMAIN um THEN 0 ELSE userID

(***************************************************************************)
(* Connect of GatewayClient and BetterBotClient, between taking the lock   *)
(* and returning: no-op when connected; else parse the bot address, dial,  *)
(* send the initial presence (closing the dialed session if that fails),   *)
(* and keep the session.  sends counts the stanzas written.                *)
(***************************************************************************)
ConnectBodyKeepsFailed(c, op, dialOK, presOK, jidOK) ==
    IF IsConnected(c)
    THEN [cl |-> c, open |-> op, dialed |-> 0, sends |-> 0, result |-> "ok"]
    ELSE IF ~jidOK
    THEN [cl |-> c, open |-> op, dialed |-> 0, sends |-> 0, result |-> "err_jid"]
    ELSE IF ~dialOK
    THEN [cl |-> c, open |-> op, dialed |-> 1, sends |-> 0, result |-> "err_dial"]
    ELSE IF ~presOK
    THEN [cl |-> [connected |-> FALSE, session |-> NewSession(op)],
          open |-> op \cup {NewSession(op)}, dialed |-> 1, sends |-> 1,
          result |-> "err_presence"]
    ELSE [cl |-> [connected |-> TRUE, session |-> NewSession(op)],
          open |-> op \cup {NewSession(op)}, dialed |-> 1, sends |-> 1, result |-> "ok"]
ConnectBody(c, op, dialOK, presOK, jidOK) ==
    IF IsConnected(c)
    THEN [cl |-> c, open |-> op, dialed |-> 0, sends |-> 0, result |-> "ok"]
    ELSE IF ~jidOK
    THEN [cl |-> c, open |-> op, dialed |-> 0, sends |-> 0, result |-> "err_jid"]
    ELSE IF ~dialOK
    THEN [cl |-> c, open |-> op, dialed |-> 1, sends |-> 0, result |-> "err_dial"]
    ELSE IF ~presOK
    THEN [cl |-> c, open |-> op, dialed |-> 1, sends |-> 1, result |-> "err_presence"]
    ELSE [cl |-> [connected |-> TRUE, session |-> NewSession(op)],
          open |-> op \cup {NewSession(op)}, dialed |-> 1, sends |-> 1, result |-> "ok"]


(***************************************************************************)
(* ChatService (database ids, one XMPPClient)                              *)
(***************************************************************************)
\* the guard s.xmpp != nil && s.xmpp.IsConnected() of ChatService.SendMessage
ChatXMPPUpAlways == TRUE
ChatXMPPUp == xmppConnected

ChatService_SendMessage(userID, content, lookupOK, saveOK, envAdmin, sendOK, simpleOK) ==
    LET email == IF userID \in UserIDs THEN UsersTable[userID].Email ELSE << >>
        saved == << Call("SaveMessage", email, userID, << >>, << >>, content, "user", saveOK) >>
        send1 == Call("XMPPSend", email, userID, << >>, Admin, content, "", sendOK)
        send2 == Call("XMPPSend", email, userID, << >>, Admin, content, "simple", simpleOK)
    IN  IF ~lookupOK THEN [calls |-> << >>, result |-> "err_get_user"]
        ELSE IF userID \notin UserIDs THEN [calls |-> << >>, result |-> "err_user_not_found"]
        ELSE IF ~saveOK THEN [calls |-> saved, result |-> "err_save"]
        ELSE IF ~ChatXMPPUp THEN [calls |-> saved \o << LogCall >>, result |-> "ok"]
        ELSE IF ~envAdmin THEN [calls |-> saved \o << LogCall >>, result |-> "ok"]
        ELSE IF sendOK THEN [calls |-> saved \o << send1 >>, result |-> "ok"]
        ELSE [calls |-> saved \o << send1, LogCall, send2 >>
                        \o (IF simpleOK THEN << >> ELSE << LogCall >>),
              result |-> "ok"]

ChatService_HandleAdminReply(msg, lookupOK, saveOK, hasWS) ==
    LET found == { i \in UserIDs : UsersTable[i].XmppJID = msg.To }
        uid   == IF found = {} THEN 0 ELSE CHOOSE i \in found : TRUE
        email == IF uid = 0 THEN << >> ELSE UsersTable[uid].Email
        saved == << Call("SaveMessage", email, uid, << >>, << >>, msg.Body, "admin", saveOK) >>
    IN  IF ~lookupOK THEN [calls |-> << >>, result |-> "err_find_user", who |-> 0]
        ELSE IF uid = 0 THEN [calls |-> << >>, result |-> "err_user_not_found", who |-> 0]
        ELSE IF ~saveOK THEN [calls |-> saved, result |-> "err_save", who |-> uid]
        ELSE [calls |-> saved \o
                (IF hasWS
                 THEN << Call("WSSend", email, uid, << >>, << >>, msg.Body, "", TRUE) >>
                 ELSE << >>),
              result |-> "ok", who |-> uid]

(***************************************************************************)
(* GatewayService (database ids, the GatewayClient)                        *)
(***************************************************************************)
GatewayService_SendMessage(userID, content, lookupOK, saveOK, sendOK, presOK) ==
    LET known == lookupOK /\ userID \in UserIDs
        email == IF userID \in UserIDs THEN UsersTable[userID].Email ELSE << >>
        um1   == IF known THEN GatewayRegisterUser(userMap, userID, email) ELSE userMap
        reg   == IF known THEN << >> ELSE << LogCall >>
        saved == << Call("SaveMessage", email, userID, << >>, << >>, content, "user", saveOK) >>
        up    == IsConnected(cl)
        inMap == userID \in DOMAIN um1
        sent  == IF ~up THEN << LogCall >>
                 ELSE IF ~inMap THEN << LogCall >>
                 ELSE << Call("XMPPSend", email, userID, << >>, Admin, content, "", sendOK) >>
                      \o (IF sendOK THEN << >> ELSE << LogCall >>)
        pres  == IF up /\ inMap
                 THEN << Call("XMPPSend", email, userID, << >>, Admin, << >>, "presence",
                              presOK) >>
                      \o (IF presOK THEN << >> ELSE << LogCall >>)
                 ELSE << >>
    IN  IF ~saveOK
        THEN [calls |-> reg \o saved, result |-> "err_save", um |-> um1]
        ELSE [calls |-> reg \o saved \o sent \o pres, result |-> "ok", um |-> um1]

GatewayService_HandleAdminReply(from, body, saveOK, hasWS) ==
    LET uid   == GatewayHandleAdminReply(userMap, body)
        email == IF uid = 0 THEN << >> ELSE userMap[uid].Email
        saved == << Call("SaveMessage", email, uid, << >>, << >>, body, "admin", saveOK) >>
    IN  IF uid = 0 THEN [calls |-> << >>, result |-> "err_handle_reply", who |-> 0]
        ELSE IF ~saveOK THEN [calls |-> saved, result |-> "err_save", who |-> uid]
        ELSE [calls |-> saved \o
                (IF hasWS
                 THEN << Call("WSSend", email, uid, << >>, << >>, body, "", TRUE) >>
                 ELSE << >>),
              result |-> "ok", who |-> uid]


(***************************************************************************)
(* BetterBotClient.ParseAdminReply: the regexp ^@(\d+)\s+(.+) applied to   *)
(* the trimmed text.  \d+ and \s+ are greedy; \s+ gives characters back    *)
(* only as far as needed for (.+) to match one character that is not a     *)
(* newline; (.+) then runs to the end of the line.                         *)
(***************************************************************************)
NoReply == [err |-> TRUE, userID |-> 0, reply |-> << >>]

ReplyMatchPartial(s) ==
    \* a matcher that forgets the \s+ after the digits: "@12a hello" gives 12
    LET nd == DigitRun(s, 2)
        p  == 2 + nd
    IN  IF s # << >> /\ s[1] = "@" /\ nd >= 1 /\ DotRun(s, p) >= 1
        THEN [err |-> FALSE, userID |-> AtoiDigits(Slice(s, 2, p - 1)),
              reply |-> Slice(s, p, p + DotRun(s, p) - 1)]
        ELSE NoReply

ReplyMatch(s) ==
    LET nd == DigitRun(s, 2)
        p  == 2 + nd
        nw == SpaceRun(s, p)
        ks == { k \in 1..nw : p + k <= Len(s) /\ s[p + k] # "\n" }
    IN  IF s # << >> /\ s[1] = "@" /\ nd >= 1 /\ ks # {}
        THEN LET k == CHOOSE x \in ks : \A y \in ks : y <= x
                 b == p + k
             IN  [err |-> FALSE, userID |-> AtoiDigits(Slice(s, 2, p - 1)),
                  reply |-> Slice(s, b, b + DotRun(s, b) - 1)]
        ELSE NoReply

ParseAdminReply(message) == ReplyMatch(TrimSpace(message))

(***************************************************************************)
(* Spec: the three deployments that route messages.  kind says which one   *)
(* the run is about: "handler" (MessageHandler over the XMPPManager),      *)
(* "chat" (ChatService over the XMPPClient) or "gateway" (GatewayService   *)
(* over the GatewayClient).  Every handler runs to completion as one step; *)
(* the outcomes of its collaborators (database, transport, WebSocket) are  *)
(* inputs of the step.                                                     *)
(***************************************************************************)
Stranger == << "x", "@", "d" >>
Addresses ==
    { Admin, Stranger }
    \cup (IF kind = "handler" THEN { GenerateUserJID(e) : e \in Emails } ELSE {})
    \cup (IF kind = "chat" THEN { UsersTable[i].XmppJID : i \in UserIDs } ELSE {})
Bodies ==
    { << "@", "1", " ", "a" >>, << "@", "2", " ", "a" >> }
    \cup (IF kind = "gateway" THEN { << "@" >> \o UserPrefix \o << "1", " ", "a" >> } ELSE {})
Msgs == [From : Addresses, To : Addresses, Body : Bodies]
CallMsg(b) == [From |-> << >>, To |-> << >>, Body |-> b]

Eff(op, email, uid, msg, r, routed, who, up, ws) ==
    [op |-> op, email |-> email, uid |-> uid, msg |-> msg, calls |-> r.calls,
     result |-> r.result, routed |-> routed, who |-> who, up |-> up, ws |-> ws]

Init ==
    /\ kind \in {"handler", "chat", "gateway"}
    /\ domain \in (IF kind = "handler" THEN Domains ELSE {Dom})
    /\ text = << >> /\ parsed = NotParsed
    /\ userClients = {} /\ adminConnected = FALSE /\ xmppConnected = FALSE
    /\ cl = Disconnected /\ activeUsers = << >> /\ userMap = << >>
    /\ mu = 0 /\ pc = << >> /\ open = {} /\ botJID = Admin
    /\ win = << >> /\ inbox = NoMsg /\ crashed = FALSE /\ last = Idle
    /\ listeners = {} /\ ctxDone = FALSE /\ incoming = "open" /\ consumer = "running"
    /\ now = 0 /\ derived = {} /\ sessions = << >> /\ usersTable = {} /\ hub = << >>

RouterFrame == << text, parsed, domain, kind, activeUsers, mu, pc, botJID, win, crashed,
                 listeners, ctxDone, incoming, now, derived, sessions, usersTable, hub >>

\* the loops of MessageHandler.processIncomingMessages and of
\* ChatService.StartXMPPListener after one stanza was handled with the given
\* result: the handler's error is logged and the loop takes the next stanza
LoopAfterStopsOnError(result) == IF result = "ok" THEN "running" ELSE "stopped"
LoopAfter(result) == "running"

\* the transport hands an inbound stanza to the listener
Deliver ==
    /\ kind \in {"handler", "chat", "gateway"}
    /\ incoming = "open"
    /\ inbox = NoMsg
    /\ inbox' \in Msgs
    /\ last' = Idle
    /\ UNCHANGED << RouterFrame, consumer, userClients, adminConnected, xmppConnected, cl, userMap, open >>

\* XMPPManager.ConnectAdmin
ConnectAdmin ==
    /\ kind = "handler"
    /\ JidValid(Admin)
    /\ adminConnected' = TRUE
    /\ last' = Idle
    /\ UNCHANGED << RouterFrame, consumer, inbox, userClients, xmppConnected, cl, userMap, open >>

\* XMPPManager.DisconnectAdmin
DisconnectAdmin ==
    /\ kind = "handler"
    /\ adminConnected' = FALSE
    /\ last' = Idle
    /\ UNCHANGED << RouterFrame, consumer, inbox, userClients, xmppConnected, cl, userMap, open >>

\* XMPPManager.DisconnectUser
DisconnectUser ==
    /\ kind = "handler"
    /\ \E j \in userClients : userClients' = userClients \ {j}
    /\ last' = Idle
    /\ UNCHANGED << RouterFrame, consumer, inbox, adminConnected, xmppConnected, cl, userMap, open >>

\* Service.SendUserMessage -> MessageHandler.ProcessUserMessage
SendUserMessage ==
    /\ kind = "handler"
    /\ \E e \in Emails, b \in Bodies, sessOK, saveOK \in BOOLEAN :
         LET r == ProcessUserMessage(e, b, sessOK, saveOK)
         IN  /\ last' = Eff("ProcessUserMessage", e, 0,
                            CallMsg(b), r, "user", e, FALSE, FALSE)
             /\ userClients' = r.clients
    /\ UNCHANGED << RouterFrame, consumer, inbox, adminConnected, xmppConnected, cl, userMap, open >>

\* Service.SendAdminMessage -> MessageHandler.ProcessAdminMessage
SendAdminMessage ==
    /\ kind = "handler"
    /\ \E e \in Emails, b \in Bodies, sessOK, saveOK, hasWS, wsOK \in BOOLEAN :
         LET r == ProcessAdminMessage(e, b, sessOK, saveOK, hasWS, wsOK)
         IN  last' = Eff("ProcessAdminMessage", e, 0,
                         CallMsg(b), r, "admin", e, FALSE, hasWS)
    /\ UNCHANGED << RouterFrame, consumer, inbox, userClients, adminConnected, xmppConnected, cl, userMap, open >>

\* MessageHandler.processIncomingMessages: one inbound stanza is handled
HandleIncoming ==
    /\ consumer = "running"
    /\ inbox # NoMsg
    /\ inbox' = NoMsg
    /\ kind = "handler"
    /\ \E sessOK, saveOK, hasWS, wsOK \in BOOLEAN :
         LET r == handleIncomingXMPPMessage(inbox, sessOK, saveOK, hasWS, wsOK)
         IN  /\ last' = Eff("handleIncomingXMPPMessage", r.who, 0, inbox, r, r.routed, r.who, FALSE, hasWS)
             /\ userClients' = r.clients
             /\ consumer' = LoopAfter(r.result)
    /\ UNCHANGED << RouterFrame, adminConnected, xmppConnected, cl, userMap, open >>

\* the XMPPClient of the ChatService connects or loses its connection
XMPPClientConnect ==
    /\ kind = "chat"
    /\ xmppConnected' = ~xmppConnected
    /\ last' = Idle
    /\ UNCHANGED << RouterFrame, consumer, inbox, userClients, adminConnected, cl, userMap, open >>

\* Handlers.SendMessage -> ChatService.SendMessage
ChatSend ==
    /\ kind = "chat"
    /\ \E u \in UserIDs \cup {3}, b \in Bodies,
          lookupOK, saveOK, envAdmin, sendOK, simpleOK \in BOOLEAN :
         LET r == ChatService_SendMessage(u, b, lookupOK, saveOK, envAdmin, sendOK, simpleOK)
         IN  last' = Eff("ChatService.SendMessage", << >>, u,
                         CallMsg(b), r, "user",
                         IF lookupOK /\ u \in UserIDs THEN u ELSE 0, xmppConnected, FALSE)
    /\ UNCHANGED << RouterFrame, consumer, inbox, userClients, adminConnected, xmppConnected, cl, userMap, open >>

\* ChatService.StartXMPPListener: one inbound stanza goes to HandleAdminReply
ChatAdminReply ==
    /\ consumer = "running"
    /\ inbox # NoMsg
    /\ inbox' = NoMsg
    /\ kind = "chat"
    /\ \E lookupOK, saveOK, hasWS \in BOOLEAN :
         LET r == ChatService_HandleAdminReply(inbox, lookupOK, saveOK, hasWS)
         IN  /\ last' = Eff("ChatService.HandleAdminReply", << >>, r.who, inbox, r, "admin",
                            r.who, xmppConnected, hasWS)
             /\ consumer' = LoopAfter(r.result)
    /\ UNCHANGED << RouterFrame, userClients, adminConnected, xmppConnected, cl, userMap, open >>

\* GatewayService.Connect -> GatewayClient.Connect (no other call in flight)
GatewayServiceConnect ==
    /\ kind = "gateway"
    /\ \E dialOK, presOK \in BOOLEAN :
         LET r == ConnectBody(cl, open, dialOK, presOK, TRUE)
         IN  /\ cl' = r.cl
             /\ open' = r.open
    /\ last' = Idle
    /\ UNCHANGED << RouterFrame, consumer, inbox, userClients, adminConnected, xmppConnected, userMap >>

\* GatewayService.Close -> GatewayClient.Close
GatewayServiceClose ==
    /\ kind = "gateway"
    /\ cl' = Disconnected
    /\ open' = open \ {cl.session}
    /\ last' = Idle
    /\ UNCHANGED << RouterFrame, consumer, inbox, userClients, adminConnected, xmppConnected, userMap >>

\* GatewayService.SendMessage
GatewaySend ==
    /\ kind = "gateway"
    /\ \E u \in UserIDs \cup {3}, b \in Bodies, lookupOK, saveOK, sendOK, presOK \in BOOLEAN :
         LET r == GatewayService_SendMessage(u, b, lookupOK, saveOK, sendOK, presOK)
         IN  /\ last' = Eff("GatewayService.SendMessage", << >>, u,
                            CallMsg(b), r, "user",
                            IF u \in UserIDs THEN u ELSE 0, IsConnected(cl), FALSE)
             /\ userMap' = r.um
    /\ UNCHANGED << RouterFrame, consumer, inbox, userClients, adminConnected, xmppConnected, cl, open >>

\* GatewayService.HandleAdminReply
GatewayAdminReply ==
    /\ inbox # NoMsg
    /\ inbox' = NoMsg
    /\ kind = "gateway"
    /\ \E saveOK, hasWS \in BOOLEAN :
         LET r == GatewayService_HandleAdminReply(inbox.From, inbox.Body, saveOK, hasWS)
         IN  last' = Eff("GatewayService.HandleAdminReply", << >>, r.who, inbox, r, "admin",
                         r.who, IsConnected(cl), hasWS)
    /\ UNCHANGED << RouterFrame, consumer, userClients, adminConnected, xmppConnected, cl, userMap, open >>

Next ==
    \/ Deliver
    \/ ConnectAdmin \/ DisconnectAdmin \/ DisconnectUser
    \/ SendUserMessage \/ SendAdminMessage \/ HandleIncoming
    \/ XMPPClientConnect \/ ChatSend \/ ChatAdminReply
    \/ GatewayServiceConnect \/ GatewayServiceClose \/ GatewaySend \/ GatewayAdminReply

Spec == Init /\ [][Next]_vars


(***************************************************************************)
(* Properties of the message handlers.                                     *)
(***************************************************************************)
Failed(l, c) == \E i \in Calls(l, c) : ~l.calls[i].ok
IsErr(l) == l.result \notin {"ok", "dropped"}

\* C1: a failure on the XMPP side (creating the user's session, or sending)
\* never prevents the save: the save is still called exactly once.
C1_SavedDespiteXMPPFailure ==
    ( /\ last.op \in {"ProcessUserMessage", "ProcessAdminMessage", "ChatService.SendMessage"}
      /\ (Failed(last, "CreateUserSession") \/ Failed(last, "XMPPSend")) )
    => Cardinality(Calls(last, "SaveMessage")) = 1

\* C2: a failed save of an admin message never prevents the WebSocket
\* delivery from being attempted.
C2_DeliveredDespiteSaveFailure ==
    ( /\ last.op \in {"ProcessAdminMessage", "ChatService.HandleAdminReply",
                      "GatewayService.HandleAdminReply"}
      /\ last.ws
      /\ Failed(last, "SaveMessage") )
    => Calls(last, "WSSend") # {}

\* C28: a successful ProcessAdminMessage for user u saves the message
\* exactly once, with type "admin", from the admin address to u's address,
\* and hands it exactly once to u's WebSocket (where a WebSocket manager is
\* configured), with or without an XMPP session of u; an XMPP send to u is
\* attempted only when u has a session, and then once.
C28_AdminMessageSavedAndBroadcastOnce ==
    (last.op = "ProcessAdminMessage" /\ last.result = "ok") =>
        /\ Cardinality(Calls(last, "SaveMessage")) = 1
        /\ \A i \in Calls(last, "SaveMessage") :
              /\ last.calls[i].typ = "admin" /\ last.calls[i].from = Admin
              /\ last.calls[i].to = GenerateUserJID(last.email)
              /\ last.calls[i].body = last.msg.Body /\ last.calls[i].ok
        /\ Cardinality(Calls(last, "WSSend")) = (IF last.ws THEN 1 ELSE 0)
        /\ \A i \in Calls(last, "WSSend") :
              last.calls[i].email = last.email /\ last.calls[i].body = last.msg.Body
        /\ Cardinality(Calls(last, "XMPPSend")) =
              (IF GenerateUserJID(last.email) \in userClients THEN 1 ELSE 0)
        /\ \A i \in Calls(last, "XMPPSend") : last.calls[i].to = GenerateUserJID(last.email)

\* an admin message for a user without an XMPP session was saved and
\* broadcast
C28_Witness ==
    /\ last.op = "ProcessAdminMessage" /\ last.result = "ok" /\ last.ws
    /\ GenerateUserJID(last.email) \notin userClients /\ userClients # {}
    /\ Calls(last, "WSSend") # {} /\ Calls(last, "XMPPSend") = {}

\* an admin message for a user with an XMPP session was sent, saved and
\* broadcast
C28_WitnessWithSession ==
    /\ last.op = "ProcessAdminMessage" /\ last.result = "ok"
    /\ GenerateUserJID(last.email) \in userClients /\ Calls(last, "XMPPSend") # {}

\* C29: an admin reply in the documented gateway form "@user_<id> <text>"
\* for a registered id is accepted by HandleAdminReply and addressed to that
\* id.
C29_GatewayFormAccepted ==
    (/\ last.op = "GatewayService.HandleAdminReply"
     /\ last.msg.Body = << "@" >> \o UserPrefix \o << "1", " ", "a" >>
     /\ 1 \in DOMAIN userMap)
        => (last.who = 1 /\ last.result # "err_handle_reply")

\* a message whose addressee could not be resolved
Unresolved(l) ==
    l.result \in {"dropped", "err_session", "err_find_user", "err_user_not_found",
                  "err_handle_reply"}
\* the failure reached the caller, or a log line
Surfaced(l) ==
    IF l.op = "handleIncomingXMPPMessage" THEN Calls(l, "Log") # {} ELSE IsErr(l)
NoSideEffects(l) ==
    /\ Calls(l, "XMPPSend") = {} /\ Calls(l, "CreateUserSession") = {}
    /\ Calls(l, "SaveMessage") = {} /\ Calls(l, "WSSend") = {}

\* C3: when the addressee cannot be resolved there is no XMPP send, no save
\* and no WebSocket broadcast, and the failure is returned or logged.
C3_UnroutableIsInertAndReported ==
    (last.op # "none" /\ Unresolved(last)) => (NoSideEffects(last) /\ Surfaced(last))

\* the part of C3 the code keeps: an unresolved addressee has no side effect
C3_UnroutableIsInert ==
    (last.op # "none" /\ Unresolved(last)) => NoSideEffects(last)

\* the user a call is made for, as a database id (0 if none)
TargetID(c) ==
    IF c.uid # 0 THEN c.uid
    ELSE IF \E i \in UserIDs : UsersTable[i].Email = c.email
         THEN CHOOSE i \in UserIDs : UsersTable[i].Email = c.email
         ELSE 0

\* C4: for a stanza from the admin address, the user the reply is saved for
\* and delivered to is the one the "@<id>" prefix of the body names, whatever
\* the To field says.
C4_AdminTargetFromBody ==
    ( /\ last.op \in {"handleIncomingXMPPMessage", "ChatService.HandleAdminReply"}
      /\ last.msg.From = Admin
      /\ ~ParseAdminReply(last.msg.Body).err )
    => \A i \in Calls(last, "SaveMessage") \cup Calls(last, "WSSend") :
          TargetID(last.calls[i]) = ParseAdminReply(last.msg.Body).userID

\* C5: a stanza from the synthetic address of the user with email e is
\* routed as a user message of exactly e.
C5_ReverseRecoversIdentity ==
    \A e \in DbEmails :
        (last.op = "handleIncomingXMPPMessage" /\ last.msg.From = GenerateUserJID(e))
        => (last.routed = "user" /\ last.who = e)

\* a SendMessage of an existing user while the XMPP connection is down
SentWhileDown ==
    /\ last.op \in {"ChatService.SendMessage", "GatewayService.SendMessage"}
    /\ ~last.up
    /\ last.who # 0
OneUserSave(l) ==
    /\ Cardinality(Calls(l, "SaveMessage")) = 1
    /\ \A i \in Calls(l, "SaveMessage") :
          l.calls[i].typ = "user" /\ l.calls[i].uid = l.who /\ l.calls[i].body = l.msg.Body

C37_AdminTypedOnlyFromAdmin ==
    ( /\ last.op \in {"handleIncomingXMPPMessage", "ChatService.HandleAdminReply",
                      "GatewayService.HandleAdminReply"}
      /\ last.msg.From # Admin )
    => \A i \in 1..Len(last.calls) :
          ~(last.calls[i].c = "SaveMessage" /\ last.calls[i].typ = "admin")

(***************************************************************************)
(* BetterBotClient: the operations that write to the admin.  Each returns  *)
(* its result and the number of stanzas written; "panic" is the nil        *)
(* pointer dereference of Send on a nil *xmpp.Session.                     *)
(***************************************************************************)
sendToAdmin(c, sendOK) ==
    IF ~JidValid(Admin) THEN [result |-> "err_admin_jid", sends |-> 0]
    ELSE IF c.session = 0 THEN [result |-> "panic", sends |-> 0]
    ELSE IF sendOK THEN [result |-> "ok", sends |-> 1]
    ELSE [result |-> "err_send", sends |-> 1]

SendSystemMessage(c, sendOK) ==
    IF ~IsConnected(c) THEN [result |-> "err_not_connected", sends |-> 0]
    ELSE sendToAdmin(c, sendOK)

ListActiveUsers(c, users, sendOK) ==
    IF usersTable = {} THEN SendSystemMessage(c, sendOK) ELSE sendToAdmin(c, sendOK)

\* SendUserMessage: refused when disconnected, else the user is recorded and
\* the formatted message goes to the admin
BotSendUserMessage(c, users, userID, sendOK) ==
    IF ~IsConnected(c)
    THEN [result |-> "err_not_connected", sends |-> 0, users |-> users]
    ELSE [result |-> sendToAdmin(c, sendOK).result, sends |-> sendToAdmin(c, sendOK).sends,
          users |-> users \cup {userID}]

\* strings.Fields
RECURSIVE Fields(_)
Fields(s) ==
    LET t == TrimLeft(s)
        w == IF \E i \in 1..Len(t) : IsSpace(t[i])
             THEN CHOOSE i \in 1..Len(t) : IsSpace(t[i]) /\ \A j \in 1..(i - 1) : ~IsSpace(t[j])
             ELSE Len(t) + 1
    IN  IF t = << >> THEN << >>
        ELSE << SubSeq(t, 1, w - 1) >> \o Fields(Slice(t, w, Len(t)))

\* strconv.Atoi of a command argument (unsigned in the model)
Atoi(tok) ==
    IF tok # << >> /\ \A i \in 1..Len(tok) : IsDigit(tok[i])
    THEN [err |-> FALSE, n |-> AtoiDigits(tok)]
    ELSE [err |-> TRUE, n |-> 0]

CmdList  == << "/", "l", "i", "s", "t" >>
CmdUsers == << "/", "u", "s", "e", "r", "s" >>
CmdHelp  == << "/", "h", "e", "l", "p" >>
CmdInfo  == << "/", "i", "n", "f", "o" >>
CmdClear == << "/", "c", "l", "e", "a", "r" >>

\* HandleCommand; ok_nosend is the nil it returns without writing anything
HandleCommand(c, users, command, sendOK) ==
    LET parts == Fields(command)
        sys   == SendSystemMessage(c, sendOK)
        keep(r) == [result |-> r.result, sends |-> r.sends, users |-> users]
    IN  IF Len(parts) = 0 THEN [result |-> "ok_nosend", sends |-> 0, users |-> users]
        ELSE IF parts[1] \in {CmdList, CmdUsers} THEN keep(ListActiveUsers(c, users, sendOK))
        ELSE IF parts[1] = CmdHelp THEN keep(sys)
        ELSE IF parts[1] = CmdInfo THEN keep(sys)
        ELSE IF parts[1] = CmdClear
        THEN IF Len(parts) < 2 \/ Atoi(parts[2]).err THEN keep(sys)
             ELSE [result |-> sys.result, sends |-> sys.sends,
                   users |-> users \ {Atoi(parts[2]).n}]
        ELSE IF HasPrefix(command, << "@" >>) THEN keep(sys)
        ELSE [result |-> "ok_nosend", sends |-> 0, users |-> users]

\* the locks HandleCommand takes: ListActiveUsers and sendUserInfo read-lock,
\* /clear with a numeric argument locks
CommandLocks(command) ==
    LET parts == Fields(command)
    IN  /\ Len(parts) > 0
        /\ \/ parts[1] \in {CmdList, CmdUsers}
           \/ parts[1] \in {CmdInfo, CmdClear} /\ Len(parts) >= 2 /\ ~Atoi(parts[2]).err

\* Close: with a session, say goodbye (the bot), send the unavailable
\* presence (its error is dropped), close and forget the session and return
\* what session.Close returned; without one, clear the flag and return nil
CloseBodySurfacesPresence(c, op, isBot, presOK, closeOK) ==
    IF c.session # 0 /\ ~presOK
    THEN [cl |-> c, open |-> op, sends |-> 1, result |-> "err_presence"]
    ELSE IF c.session # 0
    THEN [cl |-> Disconnected, open |-> op \ {c.session}, sends |-> 1,
          result |-> IF closeOK THEN "ok" ELSE "err_close"]
    ELSE [cl |-> [connected |-> FALSE, session |-> c.session], open |-> op, sends |-> 0,
          result |-> "ok"]
CloseBody(c, op, isBot, presOK, closeOK) ==
    IF c.session # 0
    THEN [cl |-> Disconnected, open |-> op \ {c.session},
          sends |-> (IF isBot THEN SendSystemMessage(c, TRUE).sends ELSE 0) + 1,
          result |-> IF closeOK THEN "ok" ELSE "err_close"]
    ELSE [cl |-> [connected |-> FALSE, session |-> c.session], open |-> op, sends |-> 0,
          result |-> "ok"]

(***************************************************************************)
(* SpecConn: one client (kind "bot": BetterBotClient, "gateway":           *)
(* GatewayClient) used by the processes Procs.  Connect is followed step   *)
(* by step: the call, taking the lock and testing the guard, and the dial; *)
(* the other operations run to completion as one step.  With kind          *)
(* "manager" the run is about one XMPPManager under its MessageHandler:    *)
(* cl is then (adminConnected, adminClient) and botJID config.XMPP.Admin.  *)
(***************************************************************************)
Procs == {1, 2}
BadJID == << "@", "d" >>
Commands ==
    { << >>, << "a" >>, CmdList, CmdUsers, CmdHelp, CmdInfo,
      CmdInfo \o << " ", "1" >>, CmdInfo \o << " ", "x" >>,
      CmdClear, CmdClear \o << " ", "1" >>, CmdClear \o << " ", "x" >>,
      << "@", "1", " ", "a" >>, << "@", "x" >> }

NoOp == [op |-> "none", arg |-> << >>, before |-> Disconnected, dialed |-> 0,
         sends |-> 0, result |-> ""]
NoWindow == [n |-> 0, dials |-> 0, oks |-> 0, down |-> FALSE, clean |-> TRUE]
Done(op, arg, before, dialed, sends, result) ==
    [op |-> op, arg |-> arg, before |-> before, dialed |-> dialed, sends |-> sends,
     result |-> result]
AllIdle == \A q \in Procs : pc[q] = "idle"

Clients == {"bot", "gateway"}
InitConn ==
    /\ kind \in Clients \cup {"manager"}
    /\ botJID \in {Admin, BadJID}
    /\ cl = Disconnected /\ open = {} /\ activeUsers = {}
    /\ mu = 0 /\ pc = [p \in Procs |-> "idle"]
    /\ win = NoWindow /\ crashed = FALSE /\ last = NoOp
    /\ text = << >> /\ parsed = NotParsed /\ domain = Dom
    /\ userClients = {} /\ adminConnected = FALSE /\ xmppConnected = FALSE
    /\ userMap = << >> /\ inbox = NoMsg
    /\ listeners = {} /\ ctxDone = FALSE /\ incoming = "open" /\ consumer = "off"
    /\ now = 0 /\ derived = {} /\ sessions = << >> /\ usersTable = {} /\ hub = << >>

ConnFrame == << text, parsed, domain, userClients, adminConnected, xmppConnected,
                userMap, inbox, kind, botJID, listeners, ctxDone, incoming, consumer,
                now, derived, sessions, usersTable, hub >>

\* a process calls Connect
ConnectCall(p) ==
    /\ ~crashed
    /\ kind \in Clients
    /\ pc[p] = "idle"
    /\ AllIdle \/ win.n < MaxCalls
    /\ pc' = [pc EXCEPT ![p] = "lock"]
    /\ win' = IF AllIdle
              THEN [n |-> 1, dials |-> 0, oks |-> 0,
                    down |-> ~(cl.connected /\ cl.session # 0), clean |-> TRUE]
              ELSE [win EXCEPT !.n = @ + 1]
    /\ last' = NoOp
    /\ UNCHANGED << ConnFrame, cl, open, activeUsers, mu, crashed >>

\* Connect takes the lock and tests the guard: it returns at once when the
\* client is connected or the bot address does not parse, else goes on to dial
ConnectLock(p) ==
    /\ ~crashed
    /\ kind \in Clients
    /\ pc[p] = "lock"
    /\ mu = 0
    /\ LET r == ConnectBody(cl, open, TRUE, TRUE, JidValid(botJID))
       IN  IF r.dialed = 0
           THEN /\ pc' = [pc EXCEPT ![p] = "idle"]
                /\ mu' = 0
                /\ last' = Done("Connect", << >>, cl, 0, 0, r.result)
           ELSE /\ pc' = [pc EXCEPT ![p] = "dial"]
                /\ mu' = p
                /\ last' = NoOp
    /\ UNCHANGED << ConnFrame, cl, open, activeUsers, win, crashed >>

\* Connect dials, sends the presence, keeps the session (the bot then greets
\* the admin) and releases the lock
ConnectDial(p) ==
    /\ ~crashed
    /\ kind \in Clients
    /\ pc[p] = "dial"
    /\ mu = p
    /\ \E dialOK, presOK, sendOK \in BOOLEAN :
         LET r     == ConnectBody(cl, open, dialOK, presOK, TRUE)
             up    == r.cl.connected /\ r.cl.session # cl.session
             greet == IF kind = "bot" /\ r.result = "ok"
                      THEN SendSystemMessage(r.cl, sendOK).sends ELSE 0
         IN  /\ cl' = r.cl
             /\ open' = r.open
             /\ win' = [win EXCEPT !.dials = @ + r.dialed,
                                   !.oks = @ + (IF up THEN 1 ELSE 0)]
             /\ last' = Done("Connect", << >>, cl, r.dialed, r.sends + greet, r.result)
    /\ pc' = [pc EXCEPT ![p] = "idle"]
    /\ mu' = 0
    /\ UNCHANGED << ConnFrame, activeUsers, crashed >>

\* Close of either client
CloseClient ==
    /\ ~crashed
    /\ kind \in Clients
    /\ mu = 0
    /\ \E presOK, closeOK \in BOOLEAN :
         LET r == CloseBody(cl, open, kind = "bot", presOK, closeOK)
         IN  /\ cl' = r.cl
             /\ open' = r.open
             /\ last' = Done("Close", [presOK |-> presOK, closeOK |-> closeOK], cl, 0,
                             r.sends, r.result)
    /\ win' = IF AllIdle THEN win ELSE [win EXCEPT !.clean = FALSE]
    /\ UNCHANGED << ConnFrame, activeUsers, mu, pc, crashed >>

\* BetterBotClient.SendUserMessage
BotSend ==
    /\ ~crashed
    /\ kind = "bot"
    /\ ~IsConnected(cl) \/ mu = 0
    /\ \E u \in UserIDs, sendOK \in BOOLEAN :
         LET r == BotSendUserMessage(cl, activeUsers, u, sendOK)
         IN  /\ activeUsers' = r.users
             /\ crashed' = (r.result = "panic")
             /\ last' = Done("SendUserMessage", << >>, cl, 0, r.sends, r.result)
    /\ UNCHANGED << ConnFrame, cl, open, mu, pc, win >>

\* BetterBotClient.HandleCommand
BotCommand ==
    /\ ~crashed
    /\ kind = "bot"
    /\ \E command \in Commands, sendOK \in BOOLEAN :
         /\ CommandLocks(command) => mu = 0
         /\ LET r == HandleCommand(cl, activeUsers, command, sendOK)
            IN  /\ activeUsers' = r.users
                /\ crashed' = (r.result = "panic")
                /\ last' = Done("HandleCommand", command, cl, 0, r.sends, r.result)
    /\ UNCHANGED << ConnFrame, cl, open, mu, pc, win >>

(***************************************************************************)
(* XMPPManager: the admin and user handles, and the goroutines started by  *)
(* MessageHandler.StartListening.                                          *)
(***************************************************************************)
\* ConnectAdmin: parse the admin address, call createSession (which returns a
\* nil session and no error) and store its result; created counts the calls of
\* createSession
ConnectAdminBody(c, jidOK) ==
    IF ~jidOK THEN [cl |-> c, created |-> 0, result |-> "err_jid"]
    ELSE [cl |-> [connected |-> TRUE, session |-> 0], created |-> 1, result |-> "ok"]

\* DisconnectAdmin, and the admin part of Shutdown
DisconnectAdminBody(c) == [connected |-> FALSE, session |-> 0]

\* CreateUserSession: the address must parse; the session is stored under it
CreateUserSessionBody(clients, userJID) ==
    IF ~JidValid(userJID) THEN [clients |-> clients, result |-> "err_jid"]
    ELSE [clients |-> clients \cup {userJID}, result |-> "ok"]

\* DisconnectUser: nil at once when there is no session for the address
DisconnectUserBody(clients, userJID) == clients \ {userJID}

\* the goroutines XMPPManager.StartListening starts: one for the admin session
\* if it is not nil, one for every user session
StartedListeners(c, clients) ==
    (IF c.session # 0 THEN {Admin} ELSE {}) \cup clients

UserJIDs == { GenerateUserJID(E1), GenerateUserJID(E2) }
\* the same addresses and the admin's, for the domain of SpecConn
ListenerIds == { UserPrefix \o Sanitize(e) \o << "@" >> \o Dom : e \in {E1, E2} } \cup {Admin}

MgrFrame == << text, parsed, domain, adminConnected, xmppConnected, userMap, inbox,
               kind, botJID, activeUsers, mu, pc, win, open, now, derived, sessions, usersTable, hub >>

XMPPManager_ConnectAdmin ==
    /\ ~crashed
    /\ kind = "manager"
    /\ LET r == ConnectAdminBody(cl, JidValid(botJID))
       IN  /\ cl' = r.cl
           /\ last' = Done("ConnectAdmin", << >>, cl, r.created, 0, r.result)
    /\ UNCHANGED << MgrFrame, userClients, listeners, ctxDone, incoming, consumer, crashed >>

XMPPManager_DisconnectAdmin ==
    /\ ~crashed
    /\ kind = "manager"
    /\ cl' = DisconnectAdminBody(cl)
    /\ last' = Done("DisconnectAdmin", << >>, cl, 0, 0, "ok")
    /\ UNCHANGED << MgrFrame, userClients, listeners, ctxDone, incoming, consumer, crashed >>

XMPPManager_CreateUserSession ==
    /\ ~crashed
    /\ kind = "manager"
    /\ \E j \in UserJIDs \cup {BadJID} :
         LET r == CreateUserSessionBody(userClients, j)
         IN  /\ userClients' = r.clients
             /\ last' = Done("CreateUserSession", j, cl, 0, 0, r.result)
    /\ UNCHANGED << MgrFrame, cl, listeners, ctxDone, incoming, consumer, crashed >>

XMPPManager_DisconnectUser ==
    /\ ~crashed
    /\ kind = "manager"
    /\ \E j \in UserJIDs :
         /\ userClients' = DisconnectUserBody(userClients, j)
         /\ last' = Done("DisconnectUser", j, cl, 0, 0, "ok")
    /\ UNCHANGED << MgrFrame, cl, listeners, ctxDone, incoming, consumer, crashed >>

\* XMPPManager.SendMessage for the manager whose admin address is admin: the
\* sender must be the connected admin or a user with a session, the
\* recipient must parse; nothing is written
XMPPManagerSendNoParse(c, clients, admin, from, to) ==
    IF from = admin /\ ~c.connected THEN "err_admin_not_connected"
    ELSE IF from # admin /\ from \notin clients THEN "err_no_session"
    ELSE "ok"
XMPPManagerSendMessage(c, clients, admin, from, to) ==
    IF from = admin /\ ~c.connected THEN "err_admin_not_connected"
    ELSE IF from # admin /\ from \notin clients THEN "err_no_session"
    ELSE IF ~JidValid(to) THEN "err_jid"
    ELSE "ok"

XMPPManager_SendMessage ==
    /\ ~crashed
    /\ kind = "manager"
    /\ \E from \in UserJIDs \cup {botJID}, to \in UserJIDs \cup {botJID, BadJID} :
         last' = Done("SendMessage", [from |-> from, to |-> to, clients |-> userClients],
                      cl, 0, 0, XMPPManagerSendMessage(cl, userClients, botJID, from, to))
    /\ UNCHANGED << MgrFrame, cl, userClients, listeners, ctxDone, incoming, consumer,
                    crashed >>

\* MessageHandler.StartListening: the session listeners and the consumer start
StartListening ==
    /\ ~crashed
    /\ kind = "manager"
    /\ listeners' = listeners \cup StartedListeners(cl, userClients)
    /\ consumer' = "running"
    /\ last' = Done("StartListening", << >>, cl, 0, 0, "ok")
    /\ UNCHANGED << MgrFrame, cl, userClients, ctxDone, incoming, crashed >>

\* Service.Start: ConnectAdmin, and on its error nothing more; else
\* MessageHandler.StartListening
ServiceStartListensAnyway(c, clients, ls, cons, jidOK) ==
    LET r == ConnectAdminBody(c, jidOK)
    IN  [cl |-> r.cl, listeners |-> ls \cup StartedListeners(r.cl, clients),
         consumer |-> "running", result |-> r.result]
ServiceStart(c, clients, ls, cons, jidOK) ==
    LET r == ConnectAdminBody(c, jidOK)
    IN  IF r.result # "ok"
        THEN [cl |-> r.cl, listeners |-> ls, consumer |-> cons, result |-> r.result]
        ELSE [cl |-> r.cl, listeners |-> ls \cup StartedListeners(r.cl, clients),
              consumer |-> "running", result |-> "ok"]

Service_Start ==
    /\ ~crashed
    /\ kind = "manager"
    /\ LET r == ServiceStart(cl, userClients, listeners, consumer, JidValid(botJID))
       IN  /\ cl' = r.cl
           /\ listeners' = r.listeners
           /\ consumer' = r.consumer
           /\ last' = Done("Service.Start", << >>, cl, 0, 0, r.result)
    /\ UNCHANGED << MgrFrame, userClients, ctxDone, incoming, crashed >>

\* Service.Stop: MessageHandler.Shutdown, that is DisconnectAdmin and
\* XMPPManager.Shutdown (closing the incoming channel a second time panics)
Service_Stop ==
    /\ ~crashed
    /\ kind = "manager"
    /\ cl' = DisconnectAdminBody(cl)
    /\ userClients' = {}
    /\ incoming' = "closed"
    /\ crashed' = (incoming = "closed")
    /\ last' = Done("Service.Stop", << >>, cl, 0, 0, "ok")
    /\ UNCHANGED << MgrFrame, listeners, ctxDone, consumer >>

\* the caller cancels the context it passed to StartListening
CancelContext ==
    /\ ~crashed
    /\ kind \in {"manager", "handler", "chat"}
    /\ ~ctxDone
    /\ ctxDone' = TRUE
    /\ last' = NoOp
    /\ UNCHANGED << MgrFrame, cl, userClients, listeners, incoming, consumer, crashed >>

\* listenToSession returns: only its context ends it
ListenerExit(j) ==
    /\ ~crashed
    /\ kind = "manager"
    /\ j \in listeners
    /\ ctxDone
    /\ listeners' = listeners \ {j}
    /\ last' = NoOp
    /\ UNCHANGED << MgrFrame, cl, userClients, ctxDone, incoming, consumer, crashed >>

\* processIncomingMessages (and the loop of StartXMPPListener) returns: its
\* context is done, or the channel is closed and drained
ConsumerExit ==
    /\ ~crashed
    /\ kind \in {"manager", "handler", "chat"}
    /\ consumer = "running"
    /\ ctxDone \/ (incoming = "closed" /\ inbox = NoMsg)
    /\ consumer' = "stopped"
    /\ last' = NoOp
    /\ UNCHANGED << MgrFrame, cl, userClients, listeners, ctxDone, incoming, crashed >>

\* XMPPManager.Shutdown: cancel the manager's own context, forget every
\* session, close the incoming channel (closing it twice panics)
XMPPManager_Shutdown ==
    /\ ~crashed
    /\ kind = "manager"
    /\ userClients' = {}
    /\ cl' = DisconnectAdminBody(cl)
    /\ incoming' = "closed"
    /\ crashed' = (incoming = "closed")
    /\ last' = Done("Shutdown", << >>, cl, 0, 0, IF incoming = "closed" THEN "panic" ELSE "ok")
    /\ UNCHANGED << MgrFrame, listeners, ctxDone, consumer >>

NextConn ==
    \/ \E p \in Procs : ConnectCall(p)
    \/ \E p \in Procs : ConnectLock(p)
    \/ \E p \in Procs : ConnectDial(p)
    \/ CloseClient
    \/ BotSend
    \/ BotCommand
    \/ XMPPManager_ConnectAdmin
    \/ XMPPManager_DisconnectAdmin
    \/ XMPPManager_CreateUserSession
    \/ XMPPManager_DisconnectUser
    \/ XMPPManager_SendMessage
    \/ StartListening
    \/ Service_Start
    \/ Service_Stop
    \/ CancelContext
    \/ \E j \in ListenerIds : ListenerExit(j)
    \/ ConsumerExit
    \/ XMPPManager_Shutdown

SpecConn == InitConn /\ [][NextConn]_vars

\* the scheduler runs every goroutine that can take a step
SpecConnLive ==
    /\ SpecConn
    /\ \A j \in ListenerIds : WF_vars(ListenerExit(j))
    /\ WF_vars(ConsumerExit)

\* C32: while listening is active (StartListening has run and its context
\* is not cancelled), every live connection handle -- the connected admin
\* handle and every user session, also one created after StartListening --
\* has its inbound-listener task.
C32_EveryHandleHasItsListener ==
    (kind = "manager" /\ consumer = "running" /\ ~ctxDone /\ ~crashed)
    => /\ \A j \in userClients : j \in listeners
       /\ cl.connected => Admin \in listeners

\* C38: shutting the manager down more than once, or while listeners are
\* running, does not crash: the incoming channel is closed exactly once.
C38_RepeatedShutdownIsSafe ==
    kind = "manager" => ~crashed

\* C12: a Connect that fails (bot address, dial or initial presence) returns
\* an error, leaves the client disconnected with no session retained, and
\* leaves no dialed transport session open.
C12_FailedConnectStaysDisconnected ==
    (last.op = "Connect" /\ last.result # "ok")
    => /\ last.result \in {"err_jid", "err_dial", "err_presence"}
       /\ ~cl.connected /\ cl.session = 0
       /\ open = {}

\* a Connect dialed a session, failed to send the presence and closed it
C12_Witness ==
    /\ last.op = "Connect" /\ last.result = "err_presence" /\ last.dialed = 1
    /\ cl = Disconnected /\ open = {}

\* C13: Close always ends disconnected with no session, and an error of the
\* unavailable presence is not returned; Close on a closed client, and
\* DisconnectAdmin or DisconnectUser with nothing connected, change no state
\* and return no error.
C13_DisconnectIdempotent ==
    [][ /\ last'.op = "Close"
           => /\ cl' = Disconnected
              /\ open' = open \ {cl.session}
              /\ last'.arg.closeOK => last'.result = "ok"
        /\ (last'.op = "Close" /\ cl = Disconnected)
           => (last'.result = "ok" /\ last'.sends = 0
               /\ UNCHANGED << cl, open, activeUsers, userClients >>)
        /\ (last'.op = "DisconnectAdmin" /\ cl = Disconnected)
           => (last'.result = "ok" /\ UNCHANGED << cl, userClients, listeners, incoming >>)
        /\ (last'.op = "DisconnectUser" /\ last'.arg \notin userClients)
           => (last'.result = "ok" /\ UNCHANGED << cl, userClients, listeners, incoming >>)
      ]_vars

\* a connected client was closed while the unavailable presence failed
C13_Witness ==
    /\ last.op = "Close" /\ last.before.connected /\ ~last.arg.presOK
    /\ last.result = "ok" /\ cl = Disconnected /\ open = {}

\* C26: XMPPManager.SendMessage returns an error when the sender is the
\* admin and the admin is not connected, when the sender is a user address
\* without a session, or when the recipient does not parse, and succeeds in
\* every other case; it changes neither the admin handle nor the user
\* sessions.
C26_SendMessageResult ==
    [][ last'.op = "SendMessage" =>
          /\ last'.result = "ok" <=>
                ~ \/ last'.arg.from = botJID /\ ~cl.connected
                  \/ last'.arg.from # botJID /\ last'.arg.from \notin userClients
                  \/ ~JidValid(last'.arg.to)
          /\ UNCHANGED << cl, userClients, listeners, incoming, open >>
      ]_vars

\* a user with a session sent to an address that does not parse, and the
\* connected admin sent to a user
C26_Witness ==
    /\ last.op = "SendMessage" /\ last.result = "err_jid"
    /\ last.arg.from \in last.arg.clients /\ last.arg.to = BadJID /\ cl.connected

\* C27: an input of HandleCommand that is neither one of the commands nor a
\* well-formed "@<id> <text>" reply is answered with a notification to the
\* admin or with an error; it is never dropped without a word.
C27_NoSilentIgnore ==
    (/\ last.op = "HandleCommand"
     /\ ~ (Len(Fields(last.arg)) > 0
           /\ Fields(last.arg)[1] \in {CmdList, CmdUsers, CmdHelp, CmdInfo, CmdClear})
     /\ ParseAdminReply(last.arg).err)
        => (last.sends > 0 \/ last.result \notin {"ok", "ok_nosend"})

\* C30: after a Service.Start that succeeds the admin is connected and the
\* loop reading inbound stanzas runs; a Service.Start that fails to connect
\* the admin starts no listener and leaves the admin disconnected; after
\* Service.Stop the admin is disconnected, no user session remains and the
\* incoming channel is closed.
C30_StartAndStop ==
    [][ /\ (last'.op = "Service.Start" /\ last'.result = "ok")
           => (cl'.connected /\ consumer' = "running")
        /\ (last'.op = "Service.Start" /\ last'.result # "ok")
           => (~cl'.connected /\ UNCHANGED << cl, listeners, consumer >>)
        /\ last'.op = "Service.Stop"
           => (~cl'.connected /\ userClients' = {} /\ incoming' = "closed")
      ]_vars

\* a service with user sessions was started and then stopped
C30_Witness ==
    /\ last.op = "Service.Stop" /\ last.before.connected
    /\ consumer = "running" /\ userClients = {} /\ incoming = "closed" /\ ~crashed

\* Service.Start failed on an admin address that does not parse
C30_WitnessFailedStart ==
    /\ last.op = "Service.Start" /\ last.result = "err_jid"
    /\ ~cl.connected /\ consumer = "off" /\ userClients # {}

\* C14: once a handle is closed its listener eventually returns, and once
\* every handle is closed the consumer of the incoming channel eventually
\* returns, whether or not the context given to StartListening is cancelled
\* (a panic of the process ends them all).
C14_ListenersTerminate ==
    /\ \A j \in ListenerIds :
          (j \in listeners /\ j \notin userClients /\ (j = Admin => cl.session = 0))
          ~> (j \notin listeners \/ crashed)
    /\ (consumer = "running" /\ userClients = {} /\ ~cl.connected)
       ~> (consumer # "running" \/ crashed)

\* C11: ConnectAdmin called while the admin is already connected creates no
\* second admin session, so at most one admin session exists at a time.
C11_OneAdminSession ==
    (last.op = "ConnectAdmin" /\ last.before.connected) => last.dialed = 0

\* the operation started on a client that was connected / disconnected
WasConnected == last.before.connected /\ last.before.session # 0

NoopWhenConnected ==
    (last.op = "Connect" /\ WasConnected)
    => /\ last.dialed = 0
       /\ last.sends = 0
       /\ last.result = "ok"
       /\ cl = last.before
       /\ open = {cl.session}

\* C10 as stated: Connect on a connected client is a no-op, and two Connect
\* calls overlapping on a disconnected client dial at most once.
C10_ConnectDialsOnce ==
    /\ NoopWhenConnected
    /\ (win.down /\ win.clean /\ win.n = 2) => win.dials <= 1

\* C10 as amended: Connect on a connected client is a no-op, and of the
\* Connect calls overlapping on a disconnected client at most one establishes
\* a session: another dial happens only after a Connect that failed.
C10_ConnectEstablishesOnce ==
    /\ NoopWhenConnected
    /\ (win.down /\ win.clean) => (win.oks <= 1 /\ win.dials <= win.n)
    /\ Cardinality(open) <= 1
    /\ cl.session # 0 => cl.session \in open

\* two overlapping Connects on a disconnected client: one dialed and
\* connected, the other found the client connected and did nothing
C10_Witness ==
    /\ win.down /\ win.clean /\ win.n = 2 /\ win.dials = 1 /\ win.oks = 1
    /\ AllIdle
    /\ last.op = "Connect" /\ WasConnected /\ last.dialed = 0 /\ last.result = "ok"


(***************************************************************************)
(* SpecListen: the inbound loop of a started listener (kind "handler":     *)
(* MessageHandler.processIncomingMessages, "chat":                         *)
(* ChatService.StartXMPPListener), the stanzas it takes, and what ends it. *)
(***************************************************************************)
InitListen ==
    /\ kind \in {"handler", "chat"}
    /\ domain = Dom
    /\ text = << >> /\ parsed = NotParsed
    /\ userClients = {} /\ adminConnected = FALSE /\ xmppConnected = FALSE
    /\ cl = Disconnected /\ activeUsers = << >> /\ userMap = << >>
    /\ mu = 0 /\ pc = << >> /\ open = {} /\ botJID = Admin
    /\ win = << >> /\ inbox = NoMsg /\ crashed = FALSE /\ last = Idle
    /\ listeners = {} /\ ctxDone = FALSE /\ incoming = "open" /\ consumer = "running"
    /\ now = 0 /\ derived = {} /\ sessions = << >> /\ usersTable = {} /\ hub = << >>

\* MessageHandler.Shutdown: DisconnectAdmin, then XMPPManager.Shutdown, which
\* forgets the sessions and closes the incoming channel
MessageHandler_Shutdown ==
    /\ ~crashed
    /\ kind = "handler"
    /\ adminConnected' = FALSE
    /\ userClients' = {}
    /\ incoming' = "closed"
    /\ crashed' = (incoming = "closed")
    /\ last' = Idle
    /\ UNCHANGED << text, parsed, domain, kind, activeUsers, mu, pc, botJID, win,
                    listeners, ctxDone, consumer, inbox, xmppConnected, cl, userMap, open,
                    now, derived, sessions, usersTable, hub >>

NextListen ==
    \/ Deliver
    \/ ConnectAdmin
    \/ HandleIncoming
    \/ ChatAdminReply
    \/ CancelContext
    \/ ConsumerExit
    \/ MessageHandler_Shutdown

\* a running loop takes the stanza that is waiting for it
SpecListen ==
    /\ InitListen
    /\ [][NextListen]_vars
    /\ WF_vars(HandleIncoming)
    /\ WF_vars(ChatAdminReply)

Handled(l) == l.op \in {"handleIncomingXMPPMessage", "ChatService.HandleAdminReply"}

\* C15: the inbound loop stops only when its context is cancelled or its
\* stream is closed; a stanza handled with an error leaves it running, and
\* while there is neither cancellation nor closure every stanza that arrives
\* is taken and handled.
C15_LoopSurvivesErrors ==
    /\ [][ /\ (consumer = "running" /\ consumer' # "running")
              => (ctxDone \/ incoming = "closed")
           /\ (Handled(last') /\ last'.result # "ok") => consumer' = "running"
         ]_vars
    /\ (inbox # NoMsg) ~> (inbox = NoMsg \/ ctxDone \/ incoming = "closed")

\* a stanza was handled with an error and the loop is still running
C15_Witness ==
    /\ Handled(last) /\ IsErr(last)
    /\ consumer = "running" /\ ~ctxDone /\ incoming = "open"


(***************************************************************************)
(* The other two derivations of a user's XMPP address.                     *)
(***************************************************************************)
DigitChars == << "0", "1", "2", "3", "4", "5", "6", "7", "8", "9" >>
\* the %d of fmt.Sprintf, for a number that is not negative
RECURSIVE Itoa(_)
Itoa(n) == IF n < 10 THEN << DigitChars[n + 1] >> ELSE Itoa(n \div 10) \o << DigitChars[(n % 10) + 1] >>

UpperLetters == << "A", "B", "C", "D", "E", "F", "G", "H", "I", "J", "K", "L", "M",
                   "N", "O", "P", "Q", "R", "S", "T", "U", "V", "W", "X", "Y", "Z" >>
LowerLetters == << "a", "b", "c", "d", "e", "f", "g", "h", "i", "j", "k", "l", "m",
                   "n", "o", "p", "q", "r", "s", "t", "u", "v", "w", "x", "y", "z" >>
\* strings.ToLower
ToLower(s) ==
    [ i \in 1..Len(s) |->
        IF \E k \in 1..26 : UpperLetters[k] = s[i]
        THEN LowerLetters[CHOOSE k \in 1..26 : UpperLetters[k] = s[i]]
        ELSE s[i] ]

\* db.generateJID: the address stored in users.xmpp_jid
DomainCom == << "d", "o", "m", "a", "i", "n", ".", "c", "o", "m" >>
generateJID(email, t) == UserPrefix \o Itoa(t) \o << "@" >> \o DomainCom

\* XMPPRegistrar.GenerateUserCredentials: the part of the email before the
\* first "@", its characters outside [a-zA-Z0-9._-] dropped, lower-cased,
\* "_" and the Unix time appended; the error is that of the password generator
SelectSeqChars(s) == SelectSeq(s, LAMBDA c : IsAlnum(c) \/ c \in {"-", ".", "_"})
GenerateUserCredentials(userEmail, t, randOK) ==
    LET at           == IndexOf(userEmail, "@")
        baseUsername == IF at = 0 THEN userEmail ELSE SubSeq(userEmail, 1, at - 1)
        username     == ToLower(SelectSeqChars(baseUsername)) \o << "_" >> \o Itoa(t)
    IN  IF randOK THEN [err |-> FALSE, addr |-> username \o << "@" >> \o domain]
        ELSE [err |-> TRUE, addr |-> << >>]

(***************************************************************************)
(* SpecAddr: one derivation (kind names it) applied to one email, at every *)
(* tick of the clock; derived collects what it returned.                   *)
(***************************************************************************)
EmailAlphabet == {"a", "B", ".", "-", "@"}
EmailTexts == UNION { [1..k -> EmailAlphabet] : k \in 0..MaxEmailLen }

InitAddr ==
    /\ kind \in {"GenerateUserJID", "generateJID", "GenerateUserCredentials"}
    /\ text \in EmailTexts
    /\ domain \in Domains
    /\ now = 0 /\ derived = {} /\ sessions = << >> /\ usersTable = {} /\ hub = << >>
    /\ parsed = NotParsed
    /\ userClients = {} /\ adminConnected = FALSE /\ xmppConnected = FALSE
    /\ cl = Disconnected /\ activeUsers = << >> /\ userMap = << >>
    /\ mu = 0 /\ pc = << >> /\ open = {} /\ botJID = Admin
    /\ win = << >> /\ inbox = NoMsg /\ crashed = FALSE /\ last = Idle
    /\ listeners = {} /\ ctxDone = FALSE /\ incoming = "open" /\ consumer = "off"

AddrFrame == << text, parsed, domain, userClients, adminConnected, xmppConnected, cl, kind,
                activeUsers, userMap, mu, pc, open, botJID, win, inbox, crashed,
                listeners, ctxDone, incoming, consumer, sessions, usersTable, hub, last >>

Derivation(fn, r) == [fn |-> fn, err |-> r.err, addr |-> r.addr]

\* a second passes
Tick ==
    /\ now < MaxNow
    /\ now' = now + 1
    /\ UNCHANGED << AddrFrame, derived >>

DeriveHandler ==
    /\ kind = "GenerateUserJID"
    /\ derived' = derived \cup
          { Derivation("GenerateUserJID", [err |-> FALSE, addr |-> GenerateUserJID(text)]) }
    /\ UNCHANGED << AddrFrame, now >>

DeriveDB ==
    /\ kind = "generateJID"
    /\ derived' = derived \cup
          { Derivation("generateJID", [err |-> FALSE, addr |-> generateJID(text, now)]) }
    /\ UNCHANGED << AddrFrame, now >>

DeriveRegistrar ==
    /\ kind = "GenerateUserCredentials"
    /\ \E randOK \in BOOLEAN :
         derived' = derived \cup
            { Derivation("GenerateUserCredentials", GenerateUserCredentials(text, now, randOK)) }
    /\ UNCHANGED << AddrFrame, now >>

NextAddr == Tick \/ DeriveHandler \/ DeriveDB \/ DeriveRegistrar

SpecAddr == InitAddr /\ [][NextAddr]_vars

Handler(r) == r.fn = "GenerateUserJID"

\* C16: the address derived for an email is the same whenever it is derived.
C16_DerivationIsDeterministic ==
    \A x, y \in derived : (x.fn = y.fn /\ ~x.err /\ ~y.err) => x.addr = y.addr

\* the address the specification describes: the local part of the email, its
\* characters outside [a-zA-Z0-9._-] replaced by "_", lower-cased, between
\* "user_" and "@" + domain
LocalPart(email) ==
    IF IndexOf(email, "@") = 0 THEN email ELSE SubSeq(email, 1, IndexOf(email, "@") - 1)
SpecAddress(email, d) ==
    UserPrefix
    \o ToLower([ i \in 1..Len(LocalPart(email)) |->
                  IF IsAlnum(LocalPart(email)[i]) \/ LocalPart(email)[i] \in {".", "_", "-"}
                  THEN LocalPart(email)[i] ELSE "_" ])
    \o << "@" >> \o d

\* C17 as stated: GenerateUserJID returns the address the specification
\* describes (local part only, "._-" kept, lower-cased).
C17_SanitizesLocalPart ==
    \A r \in derived : Handler(r) => r.addr = SpecAddress(text, domain)

\* C17 as amended: the sanitized part covers the whole email, position by
\* position: letters and digits are kept with their case, every other
\* character (".", "-", "_" and "@" included) becomes "_"; it stands between
\* "user_" and "@" + domain.
C17_SanitizesWholeEmail ==
    \A r \in derived : Handler(r) =>
        LET n == Len(text)
            x == SubSeq(r.addr, Len(UserPrefix) + 1, Len(UserPrefix) + n)
        IN  /\ Len(r.addr) = Len(UserPrefix) + n + 1 + Len(domain)
            /\ SubSeq(r.addr, 1, Len(UserPrefix)) = UserPrefix
            /\ r.addr[Len(UserPrefix) + n + 1] = "@"
            /\ SubSeq(r.addr, Len(UserPrefix) + n + 2, Len(r.addr)) = domain
            /\ \A i \in 1..n :
                  /\ text[i] \in Letters \cup {"0", "1", "2", "3", "4", "5", "6", "7", "8", "9"}
                     => x[i] = text[i]
                  /\ text[i] \notin Letters \cup {"0", "1", "2", "3", "4", "5", "6", "7", "8", "9"}
                     => x[i] = "_"

\* an email with an upper-case letter, a dot and a domain part was derived
C17_Witness ==
    /\ text = << "B", ".", "@", "a" >> /\ domain = Dom
    /\ \E r \in derived : Handler(r) /\ r.addr = << "u", "s", "e", "r", "_", "B", "_", "_", "a", "@", "d" >>

\* "user_" + the email with each character outside [a-zA-Z0-9] replaced by
\* "_" + "@" + the domain, built from the left
RECURSIVE Underscored(_)
Underscored(e) ==
    IF e = << >> THEN << >>
    ELSE << IF Head(e) \in Letters \/ Head(e) \in {"0", "1", "2", "3", "4", "5", "6", "7", "8", "9"}
            THEN Head(e) ELSE "_" >> \o Underscored(Tail(e))

\* C18: GenerateUserJID returns "user_" + the whole email with every
\* character outside [a-zA-Z0-9] replaced by "_" + "@" + the domain.
C18_GenerateUserJIDShape ==
    \A r \in derived : Handler(r) =>
        (~r.err /\ r.addr = << "u", "s", "e", "r", "_" >> \o Underscored(text) \o << "@" >> \o domain)

\* the shape of the test's example: "a.B@a" gives "user_a_B_a@d"
C18_Witness ==
    /\ text = << "a", ".", "B", "@" >> /\ domain = Dom
    /\ \E r \in derived : Handler(r) /\ r.addr = << "u", "s", "e", "r", "_", "a", "_", "B", "_", "@", "d" >>

\* C19: deriving an address for an empty email or an empty domain fails with
\* an error and yields no address.
C19_EmptyInputIsRejected ==
    \A r \in derived :
        (Handler(r) /\ (text = << >> \/ domain = << >>)) => (r.err /\ r.addr = << >>)


(***************************************************************************)
(* SpecReg: the user records of a GatewayClient (userMap) or of a          *)
(* BetterBotClient (activeUsers), kind naming the client, with the time    *)
(* of the clock in the records.                                            *)
(***************************************************************************)
RegIds == {1, 2}
Name1 == << "A" >>
Name2 == << "b", " " >>
DisplayNames == {Name1, Name2}
Hello == << "h" >>

\* GatewayClient.generateResourceID
generateResourceID(userID, displayName) ==
    UserPrefix \o Itoa(userID) \o << "_" >>
    \o [ i \in 1..Len(displayName) |->
           IF ToLower(displayName)[i] \in {" ", "@"} THEN "_" ELSE ToLower(displayName)[i] ]

\* GatewayClient.RegisterUser: the record is written whole
RegisterUser(um, userID, email, displayName, t) ==
    [ i \in (DOMAIN um) \cup {userID} |->
        IF i = userID
        THEN [UserID |-> userID, Email |-> email, DisplayName |-> displayName,
              ResourceID |-> generateResourceID(userID, displayName), IsOnline |-> TRUE,
              LastSeen |-> t]
        ELSE um[i] ]

\* GatewayClient.SetUserOnline, the record it leaves (the presence it sends
\* changes no record)
SetUserOnlineKeepsLastSeen(um, userID, online, t) ==
    IF userID \notin DOMAIN um THEN [um |-> um, result |-> "err_not_found"]
    ELSE [um |-> [um EXCEPT ![userID].IsOnline = online], result |-> "ok"]
SetUserOnline(um, userID, online, t) ==
    IF userID \notin DOMAIN um THEN [um |-> um, result |-> "err_not_found"]
    ELSE [um |-> [um EXCEPT ![userID].IsOnline = online, ![userID].LastSeen = t],
          result |-> "ok"]

\* BetterBotClient.SendUserMessage: the record is created when the id has
\* none, and then the message is counted in it
TrackUser(users, userID, email, displayName, message, t) ==
    LET session == IF userID \in DOMAIN users THEN users[userID]
                   ELSE [UserID |-> userID, Email |-> email, DisplayName |-> displayName,
                         LastMessage |-> << >>, LastMessageAt |-> 0, MessageCount |-> 0,
                         Color |-> userID % 9]
    IN  [ i \in (DOMAIN users) \cup {userID} |->
            IF i = userID
            THEN [session EXCEPT !.LastMessage = message, !.LastMessageAt = t,
                                 !.MessageCount = session.MessageCount + 1]
            ELSE users[i] ]
TrackedSend(c, users, userID, email, displayName, message, t, sendOK) ==
    IF ~IsConnected(c) THEN [users |-> users, result |-> "err_not_connected"]
    ELSE [users |-> TrackUser(users, userID, email, displayName, message, t),
          result |-> sendToAdmin(c, sendOK).result]

InitReg ==
    /\ kind \in {"GatewayClient", "BetterBotClient"}
    /\ text = << >> /\ domain = Dom
    /\ now = 0 /\ derived = {} /\ sessions = << >> /\ usersTable = {} /\ hub = << >>
    /\ parsed = NotParsed
    /\ userClients = {} /\ adminConnected = FALSE /\ xmppConnected = FALSE
    /\ cl = Disconnected /\ activeUsers = << >> /\ userMap = << >>
    /\ mu = 0 /\ pc = << >> /\ open = {} /\ botJID = Admin
    /\ win = << >> /\ inbox = NoMsg /\ crashed = FALSE
    /\ listeners = {} /\ ctxDone = FALSE /\ incoming = "open" /\ consumer = "off"
    /\ last = [op |-> "none"]

RegFrame == << text, parsed, domain, userClients, adminConnected, xmppConnected, kind,
               mu, pc, botJID, win, inbox, listeners, ctxDone, incoming, consumer, derived, sessions, usersTable, hub >>

\* what a call on the records did: the record of the user before it, and
\* whether the records of the others are what they were
Registered(op, userID, email, displayName, before, after, result) ==
    [op |-> op, userID |-> userID, email |-> email, displayName |-> displayName,
     known |-> userID \in DOMAIN before,
     before |-> IF userID \in DOMAIN before THEN before[userID] ELSE << >>,
     othersKept |-> \A o \in (DOMAIN before) \ {userID} :
                       o \in DOMAIN after /\ after[o] = before[o],
     result |-> result]

\* a second passes
RegTick ==
    /\ ~crashed
    /\ now < MaxNow
    /\ now' = now + 1
    /\ UNCHANGED << RegFrame, cl, open, activeUsers, userMap, crashed, last >>

\* Connect of either client
RegConnect ==
    /\ ~crashed
    /\ \E dialOK \in BOOLEAN, presOK \in BOOLEAN :
         LET r == ConnectBody(cl, open, dialOK, presOK, TRUE)
         IN  /\ cl' = r.cl
             /\ open' = r.open
             /\ last' = [op |-> "Connect"]
    /\ UNCHANGED << RegFrame, activeUsers, userMap, crashed, now >>

GatewayClient_RegisterUser ==
    /\ kind = "GatewayClient"
    /\ \E u \in RegIds, e \in {E1, E2}, n \in DisplayNames :
         /\ userMap' = RegisterUser(userMap, u, e, n, now)
         /\ last' = Registered("RegisterUser", u, e, n, userMap, userMap', "ok")
    /\ UNCHANGED << RegFrame, cl, open, activeUsers, crashed, now >>

GatewayClient_SetUserOnline ==
    /\ kind = "GatewayClient"
    /\ \E u \in RegIds, online \in BOOLEAN :
         LET r == SetUserOnline(userMap, u, online, now)
         IN  /\ userMap' = r.um
             /\ last' = [op |-> "SetUserOnline", userID |-> u, online |-> online, at |-> now,
                          known |-> u \in DOMAIN userMap,
                          before |-> IF u \in DOMAIN userMap THEN userMap[u] ELSE << >>,
                          othersKept |-> \A o \in (DOMAIN userMap) \ {u} :
                                            o \in DOMAIN r.um /\ r.um[o] = userMap[o],
                          same |-> r.um = userMap,
                          result |-> r.result]
    /\ UNCHANGED << RegFrame, cl, open, activeUsers, crashed, now >>

\* GatewayClient.SendUserMessage with one admin address configured: adminOK
\* says that the address parses, sendOK that session.Send succeeds; handed
\* says that the stanza was given to the transport
GatewaySendUserMessage(c, um, userID, adminOK, sendOK) ==
    IF userID \notin DOMAIN um THEN [result |-> "err_not_registered", handed |-> FALSE]
    ELSE IF ~IsConnected(c) THEN [result |-> "err_not_connected", handed |-> FALSE]
    ELSE [result |-> "ok", handed |-> adminOK /\ sendOK]

GatewayClient_SendUserMessage ==
    /\ kind = "GatewayClient"
    /\ \E u \in RegIds, adminOK \in BOOLEAN, sendOK \in BOOLEAN :
         LET r == GatewaySendUserMessage(cl, userMap, u, adminOK, sendOK)
         IN  last' = [op |-> "GatewaySend", userID |-> u, adminOK |-> adminOK,
                      sendOK |-> sendOK, handed |-> r.handed, result |-> r.result]
    /\ UNCHANGED << RegFrame, cl, open, activeUsers, userMap, crashed, now >>

BetterBotClient_SendUserMessage ==
    /\ ~crashed
    /\ kind = "BetterBotClient"
    /\ \E u \in RegIds, e \in {E1, E2}, n \in DisplayNames, sendOK \in BOOLEAN :
         /\ u \in DOMAIN activeUsers => activeUsers[u].MessageCount < MaxMessages
         /\ LET r == TrackedSend(cl, activeUsers, u, e, n, Hello, now, sendOK)
            IN  /\ activeUsers' = r.users
                /\ crashed' = (r.result = "panic")
                /\ last' = Registered("SendUserMessage", u, e, n, activeUsers, r.users,
                                      r.result)
    /\ UNCHANGED << RegFrame, cl, open, userMap, now >>

NextReg ==
    \/ RegTick
    \/ RegConnect
    \/ GatewayClient_RegisterUser
    \/ GatewayClient_SetUserOnline
    \/ GatewayClient_SendUserMessage
    \/ BetterBotClient_SendUserMessage

SpecReg == InitReg /\ [][NextReg]_vars

\* C20: registering a user id that has a record already sets the email and
\* the display name of the record to the ones given, leaves its message
\* count and its time of last activity as they were, and leaves the records
\* of the other users as they were.
C20_ReRegistrationKeepsHistory ==
    (last.op \in {"RegisterUser", "SendUserMessage"} /\ last.known /\ last.result = "ok") =>
        /\ last.othersKept
        /\ IF last.op = "RegisterUser"
           THEN /\ userMap[last.userID].Email = last.email
                /\ userMap[last.userID].DisplayName = last.displayName
                /\ userMap[last.userID].LastSeen = last.before.LastSeen
           ELSE /\ activeUsers[last.userID].Email = last.email
                /\ activeUsers[last.userID].DisplayName = last.displayName
                /\ activeUsers[last.userID].LastMessageAt = last.before.LastMessageAt
                /\ activeUsers[last.userID].MessageCount = last.before.MessageCount

\* C25: sending a user's message to the admin reports success only when the
\* stanza was handed to the transport: when the write fails or the admin
\* address does not parse, the caller gets an error.
C25_SendFailureIsReturned ==
    last.op = "GatewaySend" => (last.result = "ok" => last.handed)

\* C21: SetUserOnline for an id that has no record returns the not-found
\* error and changes no record; for an id that has one it sets IsOnline to
\* the value given and LastSeen to the time of the call, and leaves the rest
\* of the record and the records of the others as they were.
C21_SetUserOnline ==
    last.op = "SetUserOnline" =>
        IF ~last.known
        THEN last.result = "err_not_found" /\ last.same
        ELSE /\ last.result = "ok"
             /\ last.othersKept
             /\ userMap[last.userID] =
                  [last.before EXCEPT !.IsOnline = last.online, !.LastSeen = last.at]

\* a registered user, seen at second 0, is set offline at second 1 while
\* another user is registered
C21_Witness ==
    /\ last.op = "SetUserOnline" /\ last.known /\ ~last.online
    /\ last.at = 1 /\ last.before.LastSeen = 0 /\ last.before.IsOnline
    /\ DOMAIN userMap = RegIds

\* SetUserOnline was called for an id that has no record
C21_WitnessUnknown ==
    last.op = "SetUserOnline" /\ ~last.known /\ userMap # << >>


(***************************************************************************)
(* SpecCount: SendUserMessage of one BetterBotClient called from several   *)
(* goroutines, step by step: the unlocked guard, b.mu.Lock() and the       *)
(* creation of the record, the read and the write of MessageCount++ with   *)
(* the unlock, the send to the admin.  pc[i] is the position of goroutine  *)
(* i, mu the goroutine that holds b.mu (0: none).  last counts, per user,  *)
(* the messages that passed the guard and were recorded: all of them       *)
(* (total) and those since the user's record was created (since).          *)
(***************************************************************************)
Senders == 1..MaxSenders
AtRest == [at |-> "idle", u |-> 0, read |-> 0]

\* b.mu.Lock() returns when no goroutine holds the mutex
MutexIgnored(m) == TRUE
MutexFree(m) == m = 0

InitCount ==
    /\ kind = "BetterBotClient"
    /\ text = << >> /\ domain = Dom
    /\ now = 0 /\ derived = {} /\ sessions = << >> /\ usersTable = {} /\ hub = << >>
    /\ parsed = NotParsed
    /\ userClients = {} /\ adminConnected = FALSE /\ xmppConnected = FALSE
    /\ cl = Disconnected /\ activeUsers = << >> /\ userMap = << >>
    /\ mu = 0 /\ pc = [i \in Senders |-> AtRest] /\ open = {} /\ botJID = Admin
    /\ win = << >> /\ inbox = NoMsg /\ crashed = FALSE
    /\ listeners = {} /\ ctxDone = FALSE /\ incoming = "open" /\ consumer = "off"
    /\ last = [op |-> "none", total |-> [u \in RegIds |-> 0], since |-> [u \in RegIds |-> 0]]

CountFrame == << text, parsed, domain, userClients, adminConnected, xmppConnected, kind,
                 userMap, botJID, win, inbox, crashed, listeners, ctxDone, incoming,
                 consumer, now, derived, sessions, usersTable, hub >>

\* the process runs until a goroutine panics
Running == last.op # "panic"

\* Connect, which holds b.mu from its first line to its last
CountConnect ==
    /\ Running
    /\ MutexFree(mu)
    /\ \E dialOK \in BOOLEAN, presOK \in BOOLEAN :
         LET r == ConnectBody(cl, open, dialOK, presOK, TRUE)
         IN  cl' = r.cl /\ open' = r.open
    /\ UNCHANGED << CountFrame, activeUsers, mu, pc, last >>

\* the guard of SendUserMessage, read without the lock
SendGuard(i) ==
    /\ Running
    /\ pc[i].at = "idle"
    /\ \E u \in RegIds :
         /\ last.total[u] + Cardinality({ j \in Senders : pc[j].at # "idle" /\ pc[j].u = u })
               < MaxMessages
         /\ IF ~IsConnected(cl)
            THEN /\ last' = [last EXCEPT !.op = "refused"]
                 /\ pc' = pc
            ELSE /\ pc' = [pc EXCEPT ![i] = [at |-> "lock", u |-> u, read |-> 0]]
                 /\ last' = [last EXCEPT !.op = "guard"]
    /\ UNCHANGED << CountFrame, cl, open, activeUsers, mu >>

\* b.mu.Lock() and the creation of the user's record when there is none
SendTrack(i) ==
    /\ Running
    /\ pc[i].at = "lock"
    /\ MutexFree(mu)
    /\ mu' = i
    /\ activeUsers' =
          IF pc[i].u \in DOMAIN activeUsers THEN activeUsers
          ELSE [ k \in (DOMAIN activeUsers) \cup {pc[i].u} |->
                   IF k = pc[i].u
                   THEN [UserID |-> k, Email |-> E1, DisplayName |-> Name1,
                         LastMessage |-> << >>, LastMessageAt |-> 0, MessageCount |-> 0,
                         Color |-> k % 9]
                   ELSE activeUsers[k] ]
    /\ pc' = [pc EXCEPT ![i].at = "read"]
    /\ last' = [last EXCEPT !.op = "track"]
    /\ UNCHANGED << CountFrame, cl, open >>

\* session.MessageCount++, its read (of the record the goroutine holds; one
\* that /clear has removed from the map meanwhile counts from 0 here)
SendRead(i) ==
    /\ Running
    /\ pc[i].at = "read"
    /\ pc' = [pc EXCEPT ![i].at = "write",
                        ![i].read = IF pc[i].u \in DOMAIN activeUsers
                                    THEN activeUsers[pc[i].u].MessageCount ELSE 0]
    /\ last' = [last EXCEPT !.op = "read"]
    /\ UNCHANGED << CountFrame, cl, open, activeUsers, mu >>

\* session.MessageCount++, its write, with LastMessage and LastMessageAt,
\* and b.mu.Unlock()
SendWrite(i) ==
    /\ Running
    /\ pc[i].at = "write"
    /\ activeUsers' =
          IF pc[i].u \in DOMAIN activeUsers
          THEN [activeUsers EXCEPT ![pc[i].u].MessageCount = pc[i].read + 1,
                                   ![pc[i].u].LastMessage = Hello,
                                   ![pc[i].u].LastMessageAt = now]
          ELSE activeUsers
    /\ mu' = 0
    /\ pc' = [pc EXCEPT ![i].at = "send"]
    /\ last' = [op |-> "recorded",
                total |-> [last.total EXCEPT ![pc[i].u] = @ + 1],
                since |-> [last.since EXCEPT ![pc[i].u] = @ + 1]]
    /\ UNCHANGED << CountFrame, cl, open >>

\* formatUserMessage and sendToAdmin, after the unlock
SendDone(i) ==
    /\ Running
    /\ pc[i].at = "send"
    /\ \E sendOK \in BOOLEAN :
         last' = [last EXCEPT !.op = sendToAdmin(cl, sendOK).result]
    /\ pc' = [pc EXCEPT ![i] = AtRest]
    /\ UNCHANGED << CountFrame, cl, open, activeUsers, mu >>

\* HandleCommand("/clear <id>"): the record is deleted under the lock
ClearUser ==
    /\ Running
    /\ MutexFree(mu)
    /\ \E u \in RegIds :
         /\ activeUsers' = [ k \in (DOMAIN activeUsers) \ {u} |-> activeUsers[k] ]
         /\ last' = [last EXCEPT !.op = "clear", !.since[u] = 0]
    /\ UNCHANGED << CountFrame, cl, open, mu, pc >>

\* Close, which holds b.mu from its first line to its last: the goodbye and
\* the presence are written, the session is closed and forgotten
CountClose ==
    /\ Running
    /\ MutexFree(mu)
    /\ \E closeOK \in BOOLEAN :
         LET r == CloseBody(cl, open, TRUE, TRUE, closeOK)
         IN  cl' = r.cl /\ open' = r.open
    /\ last' = [last EXCEPT !.op = "close"]
    /\ UNCHANGED << CountFrame, activeUsers, mu, pc >>

NextCount ==
    \/ CountConnect
    \/ CountClose
    \/ ClearUser
    \/ \E i \in Senders : \/ SendGuard(i)
                          \/ SendTrack(i)
                          \/ SendRead(i)
                          \/ SendWrite(i)
                          \/ SendDone(i)

SpecCount == InitCount /\ [][NextCount]_vars

\* C22 as stated: a user's message count equals the number of that user's
\* messages that SendUserMessage accepted.
C22_CountEqualsAccepted ==
    \A u \in RegIds :
        IF u \in DOMAIN activeUsers THEN activeUsers[u].MessageCount = last.total[u]
        ELSE last.total[u] = 0

\* C22 as amended: a user's message count equals the number of that user's
\* messages recorded since the user's record was created (the first of them
\* creates it, each one raises the count by exactly one, concurrent calls
\* included); a user without a record has none counted.
C22_CountEqualsRecordedSinceCreation ==
    \A u \in RegIds :
        IF u \in DOMAIN activeUsers THEN activeUsers[u].MessageCount = last.since[u]
        ELSE last.since[u] = 0

\* two goroutines sent for user 1 at the same time and both were counted
C22_Witness ==
    /\ 1 \in DOMAIN activeUsers /\ activeUsers[1].MessageCount = 2
    /\ pc[1].at = "send" /\ pc[2].at = "send" /\ pc[1].u = 1 /\ pc[2].u = 1

\* C35: a SendUserMessage that runs concurrently with Close never uses a
\* session that Close has released: it sends through a live session or
\* returns the not-connected error.
C35_SendNeverUsesReleasedSession ==
    last.op # "panic"


(***************************************************************************)
(* SpecSess: XMPPSessionManager.  sessions maps a user id to its           *)
(* UserXMPPSession (Client names the XMPPClient, by user and minute of     *)
(* creation), open holds the clients that are connected, now is the clock  *)
(* in minutes.  The struct has no mutex: the calls of several goroutines   *)
(* interleave, so SendMessageAsUser is two steps, the lookup of the        *)
(* session and the send through it; pc is the session a sender holds       *)
(* between the two.                                                        *)
(***************************************************************************)
\* the minutes at which the clock is read
Moments == {0, 1, StaleMinutes, StaleMinutes + 1, 2 * StaleMinutes + 1}
NoSender == [at |-> "idle"]

\* a GetOrCreateUserSession that leaves the old session in place when the
\* connect fails
GetOrCreateKeepsOldOnFailure(tbl, op, userID, t, connectOK) ==
    LET fresh  == userID \in DOMAIN tbl /\ tbl[userID].Active
                  /\ t - tbl[userID].LastUsed < StaleMinutes
        op1    == IF userID \in DOMAIN tbl THEN op \ {tbl[userID].Client} ELSE op
        client == << userID, t >>
    IN  IF fresh
        THEN [tbl |-> [tbl EXCEPT ![userID].LastUsed = t], open |-> op,
              session |-> tbl[userID].Client, result |-> "ok"]
        ELSE IF ~connectOK
        THEN [tbl |-> tbl, open |-> op, session |-> << >>, result |-> "err_connect"]
        ELSE [tbl |-> [ k \in (DOMAIN tbl) \cup {userID} |->
                          IF k = userID
                          THEN [UserID |-> userID, Client |-> client, Active |-> TRUE,
                                LastUsed |-> t]
                          ELSE tbl[k] ],
              open |-> op1 \cup {client}, session |-> client, result |-> "ok"]

\* GetOrCreateUserSession; connectOK is the outcome of ConnectWithContext
GetOrCreateUserSession(tbl, op, userID, t, connectOK) ==
    LET fresh  == userID \in DOMAIN tbl /\ tbl[userID].Active
                  /\ t - tbl[userID].LastUsed < StaleMinutes
        op1    == IF userID \in DOMAIN tbl THEN op \ {tbl[userID].Client} ELSE op
        tbl1   == [ k \in (DOMAIN tbl) \ {userID} |-> tbl[k] ]
        client == << userID, t >>
    IN  IF fresh
        THEN [tbl |-> [tbl EXCEPT ![userID].LastUsed = t], open |-> op,
              session |-> tbl[userID].Client, result |-> "ok"]
        ELSE IF ~connectOK
        THEN [tbl |-> tbl1, open |-> op1, session |-> << >>, result |-> "err_connect"]
        ELSE [tbl |-> [ k \in (DOMAIN tbl) \cup {userID} |->
                          IF k = userID
                          THEN [UserID |-> userID, Client |-> client, Active |-> TRUE,
                                LastUsed |-> t]
                          ELSE tbl[k] ],
              open |-> op1 \cup {client}, session |-> client, result |-> "ok"]

\* CleanupInactiveSessions: the sessions last used before the cutoff
Stale(tbl, t) == { k \in DOMAIN tbl : tbl[k].LastUsed < t - StaleMinutes }
CleanupKeepsClients(tbl, op, t) ==
    [tbl  |-> [ k \in (DOMAIN tbl) \ Stale(tbl, t) |-> tbl[k] ], open |-> op]
CleanupInactiveSessions(tbl, op, t) ==
    [tbl  |-> [ k \in (DOMAIN tbl) \ Stale(tbl, t) |-> tbl[k] ],
     open |-> op \ { tbl[k].Client : k \in Stale(tbl, t) }]

InitSess ==
    /\ kind = "XMPPSessionManager"
    /\ text = << >> /\ domain = Dom
    /\ now = 0 /\ derived = {} /\ sessions = << >> /\ usersTable = {} /\ hub = << >>
    /\ parsed = NotParsed
    /\ userClients = {} /\ adminConnected = FALSE /\ xmppConnected = FALSE
    /\ cl = Disconnected /\ activeUsers = << >> /\ userMap = << >>
    /\ mu = 0 /\ pc = NoSender /\ open = {} /\ botJID = Admin
    /\ win = 0 /\ inbox = NoMsg /\ crashed = FALSE
    /\ listeners = {} /\ ctxDone = FALSE /\ incoming = "open" /\ consumer = "off"
    /\ last = [op |-> "none"]

SessFrame == << text, parsed, domain, userClients, adminConnected, xmppConnected, cl, kind,
                activeUsers, userMap, mu, botJID, inbox, crashed, listeners, ctxDone,
                incoming, consumer, derived, usersTable, hub >>

\* time passes; win counts the readings of the clock
SessTick ==
    /\ win < MaxReadings
    /\ \E t \in Moments : t > now /\ now' = t
    /\ win' = win + 1
    /\ UNCHANGED << SessFrame, sessions, open, pc, last >>

SessGetOrCreate ==
    /\ \E u \in RegIds, connectOK \in BOOLEAN :
         LET r == GetOrCreateUserSession(sessions, open, u, now, connectOK)
         IN  /\ sessions' = r.tbl
             /\ open' = r.open
             /\ last' = [op |-> "GetOrCreateUserSession", userID |-> u, at |-> now,
                         before |-> sessions, session |-> r.session, result |-> r.result]
    /\ UNCHANGED << SessFrame, now, win, pc >>

SessCleanup ==
    /\ LET r == CleanupInactiveSessions(sessions, open, now)
       IN  /\ sessions' = r.tbl
           /\ open' = r.open
           /\ last' = [op |-> "CleanupInactiveSessions", userID |-> 0, at |-> now,
                       before |-> sessions, session |-> << >>, result |-> "ok"]
    /\ UNCHANGED << SessFrame, now, win, pc >>

\* SendMessageAsUser, the lookup of the session
SessSendLookup ==
    /\ pc = NoSender
    /\ \E u \in RegIds :
         IF u \notin DOMAIN sessions \/ ~sessions[u].Active
         THEN /\ pc' = pc
              /\ last' = [op |-> "SendMessageAsUser", userID |-> u, at |-> now,
                          before |-> sessions, session |-> << >>,
                          result |-> "err_no_session"]
         ELSE /\ pc' = [at |-> "send", u |-> u, session |-> sessions[u].Client]
              /\ last' = [op |-> "lookup", userID |-> u, at |-> now,
                          before |-> sessions, session |-> sessions[u].Client,
                          result |-> "ok"]
    /\ UNCHANGED << SessFrame, now, win, sessions, open >>

\* SendMessageAsUser, the send through the session it holds and the update
\* of that session's LastUsed (a session removed from the table meanwhile is
\* no longer reachable from it)
SessSend ==
    /\ pc # NoSender
    /\ \E sendOK \in BOOLEAN :
         /\ sessions' =
               IF sendOK /\ pc.u \in DOMAIN sessions /\ sessions[pc.u].Client = pc.session
               THEN [sessions EXCEPT ![pc.u].LastUsed = now]
               ELSE sessions
         /\ last' = [op |-> "SendMessageAsUser", userID |-> pc.u, at |-> now,
                     before |-> sessions, session |-> pc.session,
                     result |-> IF sendOK THEN "ok" ELSE "err_send"]
    /\ pc' = NoSender
    /\ UNCHANGED << SessFrame, now, win, open >>

NextSess == SessTick \/ SessGetOrCreate \/ SessCleanup \/ SessSendLookup \/ SessSend

SpecSess == InitSess /\ [][NextSess]_vars

\* C23: after CleanupInactiveSessions no session last used more than 30
\* minutes before remains in the table, and its client is closed; every
\* session used within the last 30 minutes is in the table as it was, its
\* client open if it was; a send for a user without a session finds none.
C23_SweepRemovesStale ==
    /\ last.op = "CleanupInactiveSessions" =>
          \A u \in DOMAIN last.before :
              IF last.at - last.before[u].LastUsed > StaleMinutes
              THEN u \notin DOMAIN sessions /\ last.before[u].Client \notin open
              ELSE u \in DOMAIN sessions /\ sessions[u] = last.before[u]
    /\ (last.op = "SendMessageAsUser" /\ last.userID \notin DOMAIN last.before
        /\ last.session = << >>)
          => last.result = "err_no_session"

\* a sweep removed a session 31 minutes old and kept one 30 minutes old
C23_Witness ==
    /\ last.op = "CleanupInactiveSessions"
    /\ \E u, v \in DOMAIN last.before :
          /\ last.at - last.before[u].LastUsed = StaleMinutes + 1
          /\ last.at - last.before[v].LastUsed = StaleMinutes
          /\ u \notin DOMAIN sessions /\ v \in DOMAIN sessions

\* C24: no caller sends through a session that the sweep has closed and
\* removed: the session a sender holds is the one in the table, its client
\* open.
C24_SweepIsExclusive ==
    pc # NoSender =>
        /\ pc.session \in open
        /\ pc.u \in DOMAIN sessions /\ sessions[pc.u].Client = pc.session


\* C39: GetOrCreateUserSession returns the recorded session, without
\* reconnecting and with its last-used time refreshed, exactly when that
\* session is active and was used less than 30 minutes before; otherwise the
\* old session (if any) is closed and removed and a new client is connected:
\* on success the new session is recorded, on a failed connect an error is
\* returned and no session is recorded for the user.
C39_ReuseOrReconnect ==
    last.op = "GetOrCreateUserSession" =>
        LET u     == last.userID
            b     == last.before
            fresh == u \in DOMAIN b /\ b[u].Active /\ last.at - b[u].LastUsed < StaleMinutes
        IN  /\ \A v \in DOMAIN b : v # u => (v \in DOMAIN sessions /\ sessions[v] = b[v])
            /\ IF fresh
               THEN /\ last.result = "ok"
                    /\ last.session = b[u].Client
                    /\ u \in DOMAIN sessions
                    /\ sessions[u] = [b[u] EXCEPT !.LastUsed = last.at]
               ELSE /\ u \in DOMAIN b => (b[u].Client \notin open /\ b[u].Client # last.session)
                    /\ last.result \in {"ok", "err_connect"}
                    /\ last.result = "ok" =>
                          /\ u \in DOMAIN sessions
                          /\ sessions[u] = [UserID |-> u, Client |-> last.session,
                                            Active |-> TRUE, LastUsed |-> last.at]
                          /\ last.session \in open
                    /\ last.result = "err_connect" =>
                          (u \notin DOMAIN sessions /\ last.session = << >>)

\* a session used 30 minutes before was replaced, and the reconnect failed
C39_Witness ==
    /\ last.op = "GetOrCreateUserSession"
    /\ last.userID \in DOMAIN last.before
    /\ last.at - last.before[last.userID].LastUsed = StaleMinutes
    /\ last.result = "err_connect"
    /\ last.userID \notin DOMAIN sessions

\* a session used one minute before was returned as it was, refreshed
C39_WitnessReused ==
    /\ last.op = "GetOrCreateUserSession"
    /\ last.userID \in DOMAIN last.before
    /\ last.at - last.before[last.userID].LastUsed = 1
    /\ last.result = "ok"
    /\ last.session = last.before[last.userID].Client

(***************************************************************************)
(* SpecSessRace: GetOrCreateUserSession called by the goroutines Senders   *)
(* at the same time.  The struct has no mutex, so a call is three steps:   *)
(* the test of the recorded session (with the removal of a stale one), the *)
(* connect of the new client, and the store of the new session.  win       *)
(* counts the clients made, and names them with the goroutine that made    *)
(* them.                                                                   *)
(***************************************************************************)
Caller == [at |-> "idle", u |-> 0, client |-> << >>]

InitSessRace ==
    /\ kind = "XMPPSessionManager"
    /\ text = << >> /\ domain = Dom
    /\ now = 0 /\ derived = {} /\ sessions = << >> /\ usersTable = {} /\ hub = << >>
    /\ parsed = NotParsed
    /\ userClients = {} /\ adminConnected = FALSE /\ xmppConnected = FALSE
    /\ cl = Disconnected /\ activeUsers = << >> /\ userMap = << >>
    /\ mu = 0 /\ pc = [i \in Senders |-> Caller] /\ open = {} /\ botJID = Admin
    /\ win = 0 /\ inbox = NoMsg /\ crashed = FALSE
    /\ listeners = {} /\ ctxDone = FALSE /\ incoming = "open" /\ consumer = "off"
    /\ last = [op |-> "none", result |-> ""]

\* the stale threshold passes
RaceTick ==
    /\ now = 0
    /\ now' = StaleMinutes
    /\ UNCHANGED << SessFrame, sessions, open, pc, win, last >>

\* the test of sm.sessions[userID]: a fresh session is refreshed and
\* returned, any other is closed and deleted
GetCheck(i) ==
    /\ pc[i].at = "idle"
    /\ \E u \in RegIds :
         LET exists == u \in DOMAIN sessions
             fresh  == exists /\ sessions[u].Active /\ now - sessions[u].LastUsed < StaleMinutes
         IN  IF fresh
             THEN /\ sessions' = [sessions EXCEPT ![u].LastUsed = now]
                  /\ open' = open
                  /\ pc' = pc
                  /\ last' = [op |-> "GetOrCreateUserSession", result |-> "reused"]
             ELSE /\ sessions' = [ k \in (DOMAIN sessions) \ {u} |-> sessions[k] ]
                  /\ open' = IF exists THEN open \ {sessions[u].Client} ELSE open
                  /\ pc' = [pc EXCEPT ![i] = [at |-> "connect", u |-> u, client |-> << >>]]
                  /\ last' = [op |-> "check", result |-> ""]
    /\ UNCHANGED << SessFrame, now, win >>

\* NewXMPPClient and client.ConnectWithContext
GetConnect(i) ==
    /\ pc[i].at = "connect"
    /\ win < MaxDialed
    /\ \E connectOK \in BOOLEAN :
         IF connectOK
         THEN /\ open' = open \cup { << i, win + 1 >> }
              /\ pc' = [pc EXCEPT ![i].at = "store", ![i].client = << i, win + 1 >>]
              /\ last' = [op |-> "connect", result |-> "ok"]
         ELSE /\ open' = open
              /\ pc' = [pc EXCEPT ![i] = Caller]
              /\ last' = [op |-> "GetOrCreateUserSession", result |-> "err_connect"]
    /\ win' = win + 1
    /\ UNCHANGED << SessFrame, now, sessions >>

\* sm.sessions[userID] = session
GetStore(i) ==
    /\ pc[i].at = "store"
    /\ sessions' = [ k \in (DOMAIN sessions) \cup {pc[i].u} |->
                       IF k = pc[i].u
                       THEN [UserID |-> k, Client |-> pc[i].client, Active |-> TRUE,
                             LastUsed |-> now]
                       ELSE sessions[k] ]
    /\ pc' = [pc EXCEPT ![i] = Caller]
    /\ last' = [op |-> "GetOrCreateUserSession", result |-> "created"]
    /\ UNCHANGED << SessFrame, now, win, open >>

NextSessRace ==
    \/ RaceTick
    \/ \E i \in Senders : GetCheck(i) \/ GetConnect(i) \/ GetStore(i)

SpecSessRace == InitSessRace /\ [][NextSessRace]_vars

\* C36: once every call has returned, each open per-user client is the one
\* recorded for its user: concurrent calls for a user did not create two,
\* and a replaced one was not left open and unreferenced.
C36_OpenSessionsAreRecorded ==
    (\A i \in Senders : pc[i].at = "idle")
    => \A c \in open : \E u \in DOMAIN sessions : sessions[u].Client = c

(***************************************************************************)
(* SpecParse: ParseAdminReply applied to every text up to MaxTextLen.      *)
(***************************************************************************)

Unused ==
    /\ domain = << >> /\ userClients = {} /\ adminConnected = FALSE
    /\ xmppConnected = FALSE /\ cl = [connected |-> FALSE, session |-> 0]
    /\ kind = "none" /\ activeUsers = << >> /\ userMap = << >>
    /\ mu = 0 /\ pc = << >> /\ open = {} /\ botJID = << >>
    /\ win = << >> /\ inbox = NoMsg /\ crashed = FALSE /\ last = Idle
    /\ listeners = {} /\ ctxDone = FALSE /\ incoming = "open" /\ consumer = "off"
    /\ now = 0 /\ derived = {} /\ sessions = << >> /\ usersTable = {} /\ hub = << >>

InitParse ==
    /\ text \in Texts(MaxTextLen)
    /\ parsed = NotParsed
    /\ Unused

Parse ==
    /\ parsed = NotParsed
    /\ parsed' = ParseAdminReply(text)
    /\ UNCHANGED << text, domain, userClients, adminConnected, xmppConnected,
                    cl, kind, activeUsers, userMap, mu, pc, open, botJID, win,
                    inbox, crashed, listeners, ctxDone, incoming, consumer, now, derived, sessions,
                    usersTable, hub, last >>

NextParse == Parse

SpecParse == InitParse /\ [][NextParse]_vars

(***************************************************************************)
(* The reply format of the specification, stated independently of the      *)
(* matcher: "@", one or more digits, one or more spaces, then a body.      *)
(***************************************************************************)
FormDigits(s) == Slice(s, 2, 1 + DigitRun(s, 2))
FormRest(s) ==
    LET p == 2 + DigitRun(s, 2) IN Slice(s, p + SpaceRun(s, p), Len(s))
IsReplyForm(s) ==
    /\ s # << >> /\ s[1] = "@"
    /\ DigitRun(s, 2) >= 1
    /\ SpaceRun(s, 2 + DigitRun(s, 2)) >= 1
    /\ TrimSpace(FormRest(s)) # << >>

\* C6: for every text of the form "@" digits spaces body, ParseAdminReply
\* returns the number the digits write and the whole remaining message,
\* trimmed, as the body.
C6_WholeRemainderIsBody ==
    (parsed # NotParsed /\ IsReplyForm(text)) =>
        parsed = [err |-> FALSE, userID |-> AtoiDigits(FormDigits(text)),
                  reply |-> TrimSpace(FormRest(text))]

\* C7 as stated: every text that is not itself of the reply form is rejected,
\* with no user id.
C7_RejectsEveryOtherText ==
    (parsed # NotParsed /\ ~IsReplyForm(text)) =>
        (parsed.err /\ parsed.userID = 0)

\* C7 as amended: every text that, once its leading and trailing whitespace
\* is trimmed, is not of the reply form is rejected with an error and user
\* id 0 -- a bare "@12", a text with no leading "@", "@a a", and "@1a a",
\* which does not partially match as user 1.
C7_RejectsOtherTrimmedText ==
    (parsed # NotParsed /\ ~IsReplyForm(TrimSpace(text))) =>
        (parsed.err /\ parsed.userID = 0 /\ parsed.reply = << >>)

\* "@1a a" has been parsed and rejected
C7_Witness ==
    /\ text = << "@", "1", "a", " ", "a" >>
    /\ parsed # NotParsed
    /\ parsed.err

(***************************************************************************)
(* SpecUsers: DB.CreateUser against the users table of 001_init.up.sql.    *)
(* The table refuses a row whose email or whose xmpp_jid is already there  *)
(* (both columns are UNIQUE); the clock advances between calls or not.     *)
(***************************************************************************)

SignupEmails == { << "a" >>, << "b" >>, << "c" >>, << "a", "b" >>, << "b", "a" >> }

\* INSERT INTO users: the UNIQUE constraints on email and xmpp_jid
UniqueViolation(tbl, row) ==
    \E r \in tbl : r.email = row.email \/ r.xmpp_jid = row.xmpp_jid

CreateUser(tbl, email, t) ==
    LET row == [email |-> email, xmpp_jid |-> generateJID(email, t), created_at |-> t]
    IN  IF UniqueViolation(tbl, row)
        THEN [users |-> tbl, err |-> TRUE]
        ELSE [users |-> tbl \cup {row}, err |-> FALSE]

InitUsers ==
    /\ kind = "DB"
    /\ text = << >> /\ parsed = NotParsed /\ domain = << "d" >>
    /\ userClients = {} /\ adminConnected = FALSE /\ xmppConnected = FALSE
    /\ cl = Disconnected /\ activeUsers = {} /\ userMap = << >>
    /\ mu = 0 /\ pc = << >> /\ open = {} /\ botJID = << >> /\ win = NoWindow
    /\ inbox = NoMsg /\ crashed = FALSE /\ listeners = {} /\ ctxDone = FALSE
    /\ incoming = "open" /\ consumer = "off"
    /\ now = 0 /\ derived = {} /\ sessions = << >> /\ usersTable = {} /\ hub = << >>
    /\ last = NoOp

UsersFrame == << text, parsed, domain, userClients, adminConnected, xmppConnected, cl, kind,
                 activeUsers, userMap, mu, pc, open, botJID, win, inbox, crashed,
                 listeners, ctxDone, incoming, consumer, derived, sessions, hub >>

\* a second passes between two calls
UsersTick ==
    /\ now < MaxNow
    /\ now' = now + 1
    /\ last' = NoOp
    /\ UNCHANGED << UsersFrame, usersTable >>

DB_CreateUser ==
    \E email \in SignupEmails :
        LET r == CreateUser(usersTable, email, now)
        IN  /\ usersTable' = r.users
            /\ last' = [op |-> "CreateUser", email |-> email, at |-> now,
                        before |-> usersTable, err |-> r.err]
            /\ UNCHANGED << UsersFrame, now >>

NextUsers == UsersTick \/ DB_CreateUser

SpecUsers == InitUsers /\ [][NextUsers]_vars

\* C31: creating a user for an email that no stored user has succeeds,
\* whenever it is called, also in the clock second of an earlier creation,
\* and no two stored users share an xmpp_jid.
C31_DistinctEmailsBothSucceed ==
    /\ \A x, y \in usersTable : x.xmpp_jid = y.xmpp_jid => x = y
    /\ (last.op = "CreateUser" /\ \A r \in last.before : r.email # last.email) => ~last.err

(***************************************************************************)
(* SpecHub: ws.Manager.  hub.clients is the map userID -> Client, kept as  *)
(* the index of the Client in hub.conns, the Client objects in the order   *)
(* AddClient made them.  A Client has its send channel (open or closed,    *)
(* queued messages buffered), its connection, and its two goroutines.      *)
(* AddClient and RemoveClient hold m.mu from the first line to the last;   *)
(* SendToUser holds it for the lookup only and sends without it.           *)
(***************************************************************************)

HubUsers == {1, 2}
NoHub == [clients |-> << >>, conns |-> << >>]
HubIdle == [at |-> "idle", u |-> 0, client |-> 0]

\* AddClient: a new Client replaces whatever the map held for the user, its
\* pumps start and the confirmation is queued
AddClient(h, userID) ==
    LET c == [userID |-> userID, send |-> "open", queued |-> 1, conn |-> "open",
              reading |-> TRUE, writing |-> TRUE]
    IN  [clients |-> [ k \in (DOMAIN h.clients) \cup {userID} |->
                          IF k = userID THEN Len(h.conns) + 1 ELSE h.clients[k] ],
         conns   |-> Append(h.conns, c)]

\* RemoveClient: close(client.send), client.conn.Close() and delete, for the
\* Client the map holds now; closing a closed channel panics
RemoveClient(h, userID) ==
    IF userID \in DOMAIN h.clients
    THEN LET id == h.clients[userID]
         IN  [hub   |-> [clients |-> [ k \in (DOMAIN h.clients) \ {userID} |-> h.clients[k] ],
                         conns   |-> [h.conns EXCEPT ![id].send = "closed",
                                                     ![id].conn = "closed"]],
              panic |-> h.conns[id].send = "closed"]
    ELSE [hub |-> h, panic |-> FALSE]

InitHub ==
    /\ kind = "ws.Manager"
    /\ text = << >> /\ parsed = NotParsed /\ domain = << "d" >>
    /\ userClients = {} /\ adminConnected = FALSE /\ xmppConnected = FALSE
    /\ cl = Disconnected /\ activeUsers = {} /\ userMap = << >>
    /\ mu = 0 /\ pc = [i \in Senders |-> HubIdle] /\ open = {} /\ botJID = << >>
    /\ win = NoWindow
    /\ inbox = NoMsg /\ crashed = FALSE /\ listeners = {} /\ ctxDone = FALSE
    /\ incoming = "open" /\ consumer = "off"
    /\ now = 0 /\ derived = {} /\ sessions = << >> /\ usersTable = {} /\ hub = NoHub
    /\ last = NoOp

HubFrame == << text, parsed, domain, userClients, adminConnected, xmppConnected, cl, kind,
               activeUsers, userMap, mu, open, botJID, win, inbox, listeners, ctxDone,
               incoming, consumer, now, derived, sessions, usersTable >>

Manager_AddClient ==
    /\ ~crashed
    /\ Len(hub.conns) < MaxConns
    /\ \E u \in HubUsers :
         /\ hub' = AddClient(hub, u)
         /\ last' = [op |-> "AddClient", userID |-> u, client |-> Len(hub.conns) + 1,
                     before |-> hub.clients, result |-> "ok"]
    /\ UNCHANGED << HubFrame, pc, crashed >>

Manager_RemoveClient ==
    /\ ~crashed
    /\ \E u \in HubUsers :
         LET r == RemoveClient(hub, u)
         IN  /\ hub' = r.hub
             /\ crashed' = r.panic
             /\ last' = [op |-> "RemoveClient", userID |-> u, client |-> 0,
                         before |-> hub.clients, result |-> IF r.panic THEN "panic" ELSE "ok"]
    /\ UNCHANGED << HubFrame, pc >>

\* SendToUser, its lookup under m.mu.RLock()
SendToUserLookup(i) ==
    /\ ~crashed
    /\ pc[i].at = "idle"
    /\ \E u \in HubUsers :
         IF u \in DOMAIN hub.clients
         THEN /\ pc' = [pc EXCEPT ![i] = [at |-> "send", u |-> u, client |-> hub.clients[u]]]
              /\ last' = NoOp
         ELSE /\ pc' = pc
              /\ last' = [op |-> "SendToUser", userID |-> u, client |-> 0,
                          before |-> hub.clients, result |-> "none"]
    /\ UNCHANGED << HubFrame, hub, crashed >>

\* SendToUser, its select after m.mu.RUnlock(): a send on a closed channel
\* panics, a full buffer has the user's current Client removed
SendToUserSelect(i) ==
    /\ ~crashed
    /\ pc[i].at = "send"
    /\ LET id == pc[i].client
           c  == hub.conns[id]
           r  == RemoveClient(hub, pc[i].u)
           result == IF c.send = "closed" THEN "panic"
                     ELSE IF c.queued < MaxQueued THEN "enqueued"
                     ELSE IF r.panic THEN "panic" ELSE "removed"
       IN  /\ hub' = IF c.send = "closed" THEN hub
                     ELSE IF c.queued < MaxQueued
                          THEN [hub EXCEPT !.conns[id].queued = c.queued + 1]
                          ELSE r.hub
           /\ crashed' = (result = "panic")
           /\ last' = [op |-> "SendToUser", userID |-> pc[i].u, client |-> id,
                       before |-> hub.clients, result |-> result]
    /\ pc' = [pc EXCEPT ![i] = HubIdle]
    /\ UNCHANGED HubFrame

\* readPump: ReadMessage fails (the peer left, or the connection was
\* closed) and the deferred RemoveClient(c.userID) and c.conn.Close() run
ReadPumpEnd(id) ==
    /\ ~crashed
    /\ id \in DOMAIN hub.conns
    /\ hub.conns[id].reading
    /\ LET r == RemoveClient(hub, hub.conns[id].userID)
       IN  /\ hub' = [r.hub EXCEPT !.conns[id].reading = FALSE,
                                   !.conns[id].conn = "closed"]
           /\ crashed' = r.panic
           /\ last' = [op |-> "readPump", userID |-> hub.conns[id].userID, client |-> id,
                       before |-> hub.clients, result |-> IF r.panic THEN "panic" ELSE "ok"]
    /\ UNCHANGED << HubFrame, pc >>

\* writePump takes a message from c.send and writes it; NextWriter fails on
\* a closed connection and the pump returns
WritePumpTake(id) ==
    /\ ~crashed
    /\ id \in DOMAIN hub.conns
    /\ hub.conns[id].writing
    /\ hub.conns[id].queued > 0
    /\ hub' = IF hub.conns[id].conn = "closed"
              THEN [hub EXCEPT !.conns[id].queued = @ - 1, !.conns[id].writing = FALSE]
              ELSE [hub EXCEPT !.conns[id].queued = @ - 1]
    /\ last' = NoOp
    /\ UNCHANGED << HubFrame, pc, crashed >>

\* writePump returns: the channel is closed and drained, or the ping cannot
\* be written on a closed connection; its defer closes the connection
WritePumpExit(id) ==
    /\ ~crashed
    /\ id \in DOMAIN hub.conns
    /\ hub.conns[id].writing
    /\ \/ hub.conns[id].send = "closed" /\ hub.conns[id].queued = 0
       \/ hub.conns[id].conn = "closed"
    /\ hub' = [hub EXCEPT !.conns[id].writing = FALSE, !.conns[id].conn = "closed"]
    /\ last' = NoOp
    /\ UNCHANGED << HubFrame, pc, crashed >>

NextHub ==
    \/ Manager_AddClient
    \/ Manager_RemoveClient
    \/ \E i \in Senders : SendToUserLookup(i)
    \/ \E i \in Senders : SendToUserSelect(i)
    \/ \E id \in 1..MaxConns : ReadPumpEnd(id)
    \/ \E id \in 1..MaxConns : WritePumpTake(id)
    \/ \E id \in 1..MaxConns : WritePumpExit(id)

SpecHub == InitHub /\ [][NextHub]_vars

\* C33: in every interleaving of SendToUser, RemoveClient and the end of a
\* read loop, no send channel is sent on after it was closed and none is
\* closed twice: SendToUser enqueues into an open channel or does nothing.
C33_NoUseOfClosedChannel ==
    last.op \in {"SendToUser", "RemoveClient", "readPump"} => last.result # "panic"

\* C34: when the read loop of an earlier connection of a user ends while a
\* newer connection of that user is registered, the newer one stays
\* registered with its send channel open, and the earlier one's send channel
\* is closed.
C34_EarlierEndKeepsNewer ==
    (/\ last.op = "readPump"
     /\ last.userID \in DOMAIN last.before
     /\ last.before[last.userID] # last.client)
    => /\ last.userID \in DOMAIN hub.clients
       /\ hub.clients[last.userID] = last.before[last.userID]
       /\ hub.conns[hub.clients[last.userID]].send = "open"
       /\ hub.conns[last.client].send = "closed"

=============================================================================
